---- MODULE Spec2Model ----
(***************************************************************************)
(* Model of the sample-playback engine ShortwavDSP::WavPlayer              *)
(* (src/src/dsp/wav-player.h) and of the Rack module that drives it        *)
(* (src/src/WavPlayer.hpp, src/src/WavPlayer.cpp).                         *)
(* The crossover setters of ShortwavDSP::ThreeBandEQ                       *)
(* (src/src/dsp/3-band-eq.h) are modelled in a section of their own.       *)
(*                                                                         *)
(* Number representations                                                  *)
(*   playbackPosition_  fixed point, PosScale units per frame              *)
(*   speed_, pitch_     hundredths (100 = 1.0)                             *)
(*   volume_            tenths (10 = 1.0)                                  *)
(*   a decoded sample   [num, exp], the dyadic value num / 2^exp           *)
(*   size_t             SizeBits wide (unsigned wrap-around is kept)       *)
(*   a chunk size       the int32 its four bytes hold (0xFFFFFFFF is -1)   *)
(* Rounding of double arithmetic is not modelled: the inputs are chosen    *)
(* so that every value is exact in the fixed-point representation.  The    *)
(* one conversion to float that rounds, in the clamp of loop mode Off, is  *)
(* FloatOf.                                                                *)
(***************************************************************************)
EXTENDS Integers, Sequences, FiniteSets, TLC

VARIABLES
  \* ShortwavDSP::WavPlayer (dsp/wav-player.h:1206-1229)
  audioData_, filePath_, fileSampleRate_, numChannels_, numSamples_,
  bitsPerSample_, outputSampleRate_, speed_, pitch_, volume_,
  playbackPosition_, state_, loopMode_, reverse_, pingPongDirection_,
  interpolation_, mutex_,
  \* Rack module WavPlayer (WavPlayer.hpp:56-62) and its knobs
  fileLoading_, fileLoaded_, fileMutex_, params,
  \* its slices (WavPlayer.hpp:64-72)
  slices_, currentSlice_,
  \* ShortwavDSP::ThreeBandEQ (dsp/3-band-eq.h:363-365)
  sampleRate_, lowFreq_, highFreq_,
  \* the control (loader) thread and the audio thread: position and locals
  ctl, aud,
  \* the last completed call and what it returned
  ret

engineVars == <<audioData_, filePath_, fileSampleRate_, numChannels_,
                numSamples_, bitsPerSample_, outputSampleRate_, speed_,
                pitch_, volume_, playbackPosition_, state_, loopMode_,
                reverse_, pingPongDirection_, interpolation_>>
moduleVars == <<fileLoading_, fileLoaded_, fileMutex_, params>>
sliceVars == <<slices_, currentSlice_>>
eqVars == <<sampleRate_, lowFreq_, highFreq_>>
\* what the engine's own operations and threads never touch
restVars == <<sliceVars, eqVars>>
vars == <<engineVars, mutex_, moduleVars, restVars, ctl, aud, ret>>

----------------------------------------------------------------------------
\* Bounds of the model

\* fraction bits of the playhead and of the rate (binary, as in a double)
PosBits == 3
\* modelled width of size_t in bits
SizeBits == 25
\* processing calls are explored while |position| <= PosCap frames
PosCap == 4

----------------------------------------------------------------------------
\* Arithmetic helpers

RECURSIVE Pow2(_)
Pow2(n) == IF n = 0 THEN 1 ELSE 2 * Pow2(n - 1)

\* fixed-point resolution of the playhead: units per frame
PosScale == Pow2(PosBits)

SizeMod == Pow2(SizeBits)

\* unsigned size_t subtraction  n - 1
SizeSub1(n) == (n - 1) % SizeMod

Min(a, b) == IF a < b THEN a ELSE b
Max(a, b) == IF a > b THEN a ELSE b

wavClamp(x, minVal, maxVal) == Max(minVal, Min(maxVal, x))

\* significand bits of a float
kFloatMantissa == 24

\* the spacing of floats around n
RECURSIVE FloatQuantum(_)
FloatQuantum(n) ==
  IF n < Pow2(kFloatMantissa) THEN 1 ELSE 2 * FloatQuantum(n \div 2)

\* static_cast<float>(n) of a non-negative integer: round to nearest, ties
\* to even
FloatOf(n) ==
  LET q == FloatQuantum(n)
      r == n % q
      lo == n - r
  IN IF 2 * r > q \/ (2 * r = q /\ (lo \div q) % 2 = 1) THEN lo + q ELSE lo

\* audio format codes
kWavFormatPCM == 1
kWavFormatIEEEFloat == 3
kWavFormatExtensible == 65534

----------------------------------------------------------------------------
\* Sample conversion: raw code -> dyadic value [num, exp]

Dy(n, e) == [num |-> n, exp |-> e]

\* Floats that are not finite.  2^kFloatMaxExp is the first magnitude a float
\* cannot hold: +infinity is 1 * 2^kFloatMaxExp, -infinity its negative, and
\* NaN is written 0 * 2^kFloatMaxExp.
kFloatMaxExp == 128
Infinity == Dy(1, -kFloatMaxExp)
MinusInfinity == Dy(-1, -kFloatMaxExp)
NaN == Dy(0, -kFloatMaxExp)
IsFinite(d) == d.exp # -kFloatMaxExp

\* IEEE arithmetic where an operand is not finite (a finite operand is
\* any Dy with another exponent; the finite results are computed elsewhere)
FNeg(a) == IF IsFinite(a) THEN a ELSE Dy(-a.num, a.exp)
FAdd(a, b) ==
  IF a = NaN \/ b = NaN THEN NaN
  ELSE IF ~IsFinite(a) /\ ~IsFinite(b) THEN (IF a = b THEN a ELSE NaN)
  ELSE IF ~IsFinite(a) THEN a
  ELSE b
\* a * t for 0 <= t
FTimes(a, t) == IF IsFinite(a) THEN a ELSE IF t = 0 THEN NaN ELSE a

\* two's complement reading of an unsigned code of the given width
Signed(code, bits) ==
  IF code >= Pow2(bits - 1) THEN code - Pow2(bits) ELSE code

uint8ToFloat(sample) == Dy(sample - 128, 7)
int16ToFloat(sample) == Dy(sample, 15)
int24ToFloat(code) == Dy(Signed(code, 24), 23)
\* static_cast<float>(sample) keeps kFloatMantissa significant bits (round
\* to nearest, ties to even): the magnitude a becomes m * 2^k
RECURSIVE FloatShift(_)
FloatShift(a) == IF a < Pow2(kFloatMantissa) THEN 0 ELSE 1 + FloatShift(a \div 2)
FloatMantissa(a) ==
  LET q == Pow2(FloatShift(a))
      r == a % q
      m == a \div q
  IN IF 2 * r > q \/ (2 * r = q /\ m % 2 = 1) THEN m + 1 ELSE m
INT32_MIN == -2147483647 - 1
int32ToFloat(sample) ==
  IF sample = INT32_MIN THEN Dy(-Pow2(kFloatMantissa - 1), kFloatMantissa - 1)
  ELSE IF sample < 0 THEN Dy(-FloatMantissa(-sample), 31 - FloatShift(-sample))
  ELSE Dy(FloatMantissa(sample), 31 - FloatShift(sample))

\* 16-bit codes are given unsigned (the two bytes), 32-bit ones as the
\* int32 the four bytes hold
convertSample(code, bits) ==
  CASE bits = 8  -> uint8ToFloat(code)
    [] bits = 16 -> int16ToFloat(Signed(code, 16))
    [] bits = 24 -> int24ToFloat(code)
    [] bits = 32 -> int32ToFloat(code)
    [] OTHER     -> Dy(0, 0)

----------------------------------------------------------------------------
\* WAV images.  A file is described by its total size in bytes, whether the
\* 12-byte RIFF/WAVE header carries the right tags, the chunk headers it
\* holds (each with the offset of its first byte) and the raw sample codes
\* of the data payload, in order.  Bytes described by none of these are zero.

Hdr(off, id, csize, af, ch, rate, bits) ==
  [off |-> off, id |-> id, csize |-> csize, audioFormat |-> af,
   numChannels |-> ch, sampleRate |-> rate, bitsPerSample |-> bits]
FmtHdr(off, csize, af, ch, rate, bits) == Hdr(off, "fmt ", csize, af, ch, rate, bits)
DataHdr(off, csize) == Hdr(off, "data", csize, 0, 0, 0, 0)
OtherHdr(off, csize) == Hdr(off, "LIST", csize, 0, 0, 0, 0)

WavImage(name, exists, size, riff, hdrs, raw) ==
  [name |-> name, exists |-> exists, size |-> size, riff |-> riff,
   hdrs |-> hdrs, raw |-> raw]

\* the chunk header the parser reads at a byte offset
HeaderAt(f, off) ==
  IF \E h \in f.hdrs : h.off = off
  THEN CHOOSE h \in f.hdrs : h.off = off
  ELSE Hdr(off, "zero", 0, 0, 0, 0, 0)

\* result of the parsing part of a load, before the commit
ParseErr(e) ==
  [err |-> e, ub |-> FALSE, numChannels |-> 0, sampleRate |-> 0,
   bitsPerSample |-> 0, numFrames |-> 0, data |-> <<>>]
ParseUB ==
  [err |-> "None", ub |-> TRUE, numChannels |-> 0, sampleRate |-> 0,
   bitsPerSample |-> 0, numFrames |-> 0, data |-> <<>>]
ParseOk(fmt, numFrames, data) ==
  [err |-> "None", ub |-> FALSE, numChannels |-> fmt.numChannels,
   sampleRate |-> fmt.sampleRate, bitsPerSample |-> fmt.bitsPerSample,
   numFrames |-> numFrames, data |-> data]

ScanErr(e) == [err |-> e, foundFmt |-> FALSE, foundData |-> FALSE,
               fmt |-> Hdr(0, "zero", 0, 0, 0, 0, 0), dataSize |-> 0, dataOffset |-> 0]
ScanEnd(foundFmt, foundData, fmt, dataSize, dataOffset) ==
  [err |-> "None", foundFmt |-> foundFmt, foundData |-> foundData,
   fmt |-> fmt, dataSize |-> dataSize, dataOffset |-> dataOffset]

\* readAndConvertSamples / convertSamplesFromMemory: the first n codes
ConvertSamples(raw, n, bits, isFloat) ==
  [i \in 1..n |->
     IF isFloat /\ bits = 32 THEN raw[i] ELSE convertSample(raw[i], bits)]

\* A chunk size is a uint32_t, given here as the int32 its four bytes hold:
\* 0xFFFFFFFF is -1, and every negative number is a size of 2^31 or more.
\* uint32_t skipSize = chunkSize + (chunkSize & 1), modulo 2^32
SkipSize(chunkSize) == IF chunkSize = -1 THEN 0 ELSE chunkSize + (chunkSize % 2)

\* moving forward by a uint32_t number of bytes: 2^31 bytes or more lead
\* past the end of every image (long and size_t taken 64 bits wide; sizes
\* of 0x80000000..0xFFFFFFFE are in no image that is drawn)
Forward(f, n) == IF n < 0 THEN f.size ELSE n

\* loadFile, chunk scan (the while loop over the stream)
RECURSIVE FileScan(_, _, _, _)
FileScan(f, off, fmt, foundFmt) ==
  IF off + 8 > f.size THEN ScanErr("CorruptedData")
  ELSE LET h == HeaderAt(f, off) IN
    IF h.id = "fmt " THEN
      IF 0 <= h.csize /\ h.csize < 16 THEN ScanErr("InvalidFormat")
      ELSE IF off + 8 + 16 > f.size THEN ScanErr("ReadError")
      ELSE FileScan(f, off + 8 + 16 + (IF h.csize = 16 THEN 0 ELSE Forward(f, h.csize - 16)),
                    h, TRUE)
    ELSE IF h.id = "data" THEN ScanEnd(foundFmt, TRUE, fmt, h.csize, off + 8)
    ELSE FileScan(f, off + 8 + Forward(f, SkipSize(h.csize)), fmt, foundFmt)

\* loadFile up to the commit; allocOk: the allocations succeed
ParseFile(f, allocOk) ==
  IF f.name = "" THEN ParseErr("InvalidParameter")
  ELSE IF ~f.exists THEN ParseErr("FileNotFound")
  ELSE IF f.size < 12 \/ ~f.riff THEN ParseErr("InvalidFormat")
  ELSE LET s == FileScan(f, 12, Hdr(0, "zero", 0, 0, 0, 0, 0), FALSE) IN
    IF s.err # "None" THEN ParseErr(s.err)
    ELSE IF ~s.foundFmt \/ ~s.foundData THEN ParseErr("InvalidFormat")
    ELSE IF s.fmt.audioFormat # kWavFormatPCM /\ s.fmt.audioFormat # kWavFormatIEEEFloat
            /\ s.fmt.audioFormat # kWavFormatExtensible
      THEN ParseErr("UnsupportedFormat")
    ELSE IF s.fmt.numChannels = 0 \/ s.fmt.numChannels > 2 THEN ParseErr("UnsupportedFormat")
    ELSE IF s.fmt.bitsPerSample \notin {8, 16, 24, 32} THEN ParseErr("UnsupportedFormat")
    ELSE LET bytesPerSample == s.fmt.bitsPerSample \div 8
             bytesPerFrame == bytesPerSample * s.fmt.numChannels
             numFrames == s.dataSize \div bytesPerFrame
         IN IF numFrames = 0 THEN ParseErr("CorruptedData")
            ELSE IF ~allocOk THEN ParseErr("OutOfMemory")
            ELSE IF s.dataOffset + numFrames * bytesPerFrame > f.size THEN ParseErr("ReadError")
            ELSE ParseOk(s.fmt, numFrames,
                         ConvertSamples(f.raw, numFrames * s.fmt.numChannels,
                                        s.fmt.bitsPerSample,
                                        s.fmt.audioFormat = kWavFormatIEEEFloat))

\* loadFromMemory, chunk scan (the while loop over the byte buffer)
RECURSIVE MemScan(_, _, _, _)
MemScan(f, off, fmt, foundFmt) ==
  IF ~(off + 8 <= f.size) THEN ScanEnd(foundFmt, FALSE, fmt, 0, 0)
  ELSE LET h == HeaderAt(f, off)
           offset == off + 8
       IN
    IF h.id = "fmt " THEN
      IF offset + 16 > f.size THEN ScanErr("CorruptedData")
      ELSE MemScan(f, offset + Forward(f, SkipSize(h.csize)), h, TRUE)
    ELSE IF h.id = "data" THEN ScanEnd(foundFmt, TRUE, fmt, h.csize, offset)
    ELSE MemScan(f, offset + Forward(f, SkipSize(h.csize)), fmt, foundFmt)

\* loadFromMemory up to the commit.  A bit depth below 8 makes bytesPerFrame
\* zero and the frame count a division by zero (undefined): ub.
ParseMemory(f, allocOk) ==
  IF ~f.exists \/ f.size < 12 + 8 THEN ParseErr("InvalidParameter")
  ELSE IF ~f.riff THEN ParseErr("InvalidFormat")
  ELSE LET s == MemScan(f, 12, Hdr(0, "zero", 0, 0, 0, 0, 0), FALSE) IN
    IF s.err # "None" THEN ParseErr(s.err)
    ELSE IF ~s.foundFmt \/ ~s.foundData THEN ParseErr("InvalidFormat")
    ELSE IF s.fmt.audioFormat # kWavFormatPCM /\ s.fmt.audioFormat # kWavFormatIEEEFloat
      THEN ParseErr("UnsupportedFormat")
    ELSE IF s.fmt.numChannels = 0 \/ s.fmt.numChannels > 2 THEN ParseErr("UnsupportedFormat")
    ELSE LET bytesPerSample == s.fmt.bitsPerSample \div 8
             bytesPerFrame == bytesPerSample * s.fmt.numChannels
         IN IF bytesPerFrame = 0 THEN ParseUB
            ELSE LET numFrames == s.dataSize \div bytesPerFrame IN
              IF numFrames = 0 \/ s.dataOffset + s.dataSize > f.size THEN ParseErr("CorruptedData")
              ELSE IF ~allocOk THEN ParseErr("OutOfMemory")
              ELSE ParseOk(s.fmt, numFrames,
                           ConvertSamples(f.raw, numFrames * s.fmt.numChannels,
                                          s.fmt.bitsPerSample,
                                          s.fmt.audioFormat = kWavFormatIEEEFloat))

----------------------------------------------------------------------------
\* The engine as a record, and its methods as operators on it

Eng ==
  [audioData |-> audioData_, filePath |-> filePath_,
   fileSampleRate |-> fileSampleRate_, numChannels |-> numChannels_,
   numSamples |-> numSamples_, bitsPerSample |-> bitsPerSample_,
   outputSampleRate |-> outputSampleRate_, speed |-> speed_, pitch |-> pitch_,
   volume |-> volume_, playbackPosition |-> playbackPosition_,
   state |-> state_, loopMode |-> loopMode_, reverse |-> reverse_,
   pingPongDirection |-> pingPongDirection_, interpolation |-> interpolation_]

\* WavPlayer(): the engine after construction
NewEngine ==
  [audioData |-> <<>>, filePath |-> "", fileSampleRate |-> 44100,
   numChannels |-> 1, numSamples |-> 0, bitsPerSample |-> 16,
   outputSampleRate |-> 44100, speed |-> 100, pitch |-> 100, volume |-> 10,
   playbackPosition |-> 0, state |-> "Stopped", loopMode |-> "Off",
   reverse |-> FALSE, pingPongDirection |-> 1, interpolation |-> "Cubic"]

EngIs(e) ==
  /\ audioData_ = e.audioData
  /\ filePath_ = e.filePath
  /\ fileSampleRate_ = e.fileSampleRate
  /\ numChannels_ = e.numChannels
  /\ numSamples_ = e.numSamples
  /\ bitsPerSample_ = e.bitsPerSample
  /\ outputSampleRate_ = e.outputSampleRate
  /\ speed_ = e.speed
  /\ pitch_ = e.pitch
  /\ volume_ = e.volume
  /\ playbackPosition_ = e.playbackPosition
  /\ state_ = e.state
  /\ loopMode_ = e.loopMode
  /\ reverse_ = e.reverse
  /\ pingPongDirection_ = e.pingPongDirection
  /\ interpolation_ = e.interpolation

SetEng(e) ==
  /\ audioData_' = e.audioData
  /\ filePath_' = e.filePath
  /\ fileSampleRate_' = e.fileSampleRate
  /\ numChannels_' = e.numChannels
  /\ numSamples_' = e.numSamples
  /\ bitsPerSample_' = e.bitsPerSample
  /\ outputSampleRate_' = e.outputSampleRate
  /\ speed_' = e.speed
  /\ pitch_' = e.pitch
  /\ volume_' = e.volume
  /\ playbackPosition_' = e.playbackPosition
  /\ state_' = e.state
  /\ loopMode_' = e.loopMode
  /\ reverse_' = e.reverse
  /\ pingPongDirection_' = e.pingPongDirection
  /\ interpolation_' = e.interpolation

isLoaded(e) == e.numSamples > 0 /\ Len(e.audioData) > 0

\* the commit at the end of a successful loadFile / loadFromMemory
StoreFileInfo(e, p, path) ==
  [e EXCEPT !.audioData = p.data, !.filePath = path,
            !.fileSampleRate = p.sampleRate, !.numChannels = p.numChannels,
            !.numSamples = p.numFrames, !.bitsPerSample = p.bitsPerSample,
            !.playbackPosition = 0, !.state = "Stopped",
            !.pingPongDirection = 1]

\* mutant of loadFile: the samples are read straight into audioData_, so a
\* read that fails has already replaced the buffer
loadFileInPlace(e, f, allocOk) ==
  LET p == ParseFile(f, allocOk) IN
    IF p.err = "None" THEN StoreFileInfo(e, p, f.name)
    ELSE IF p.err = "ReadError" THEN [e EXCEPT !.audioData = <<>>]
    ELSE e

loadFile(e, f, allocOk) ==
  LET p == ParseFile(f, allocOk) IN
    IF p.err = "None" THEN StoreFileInfo(e, p, f.name) ELSE e

loadFromMemory(e, f, allocOk) ==
  LET p == ParseMemory(f, allocOk) IN
    IF p.err = "None" THEN StoreFileInfo(e, p, "") ELSE e

unload(e) ==
  [e EXCEPT !.audioData = <<>>, !.filePath = "", !.numSamples = 0,
            !.numChannels = 1, !.playbackPosition = 0, !.state = "Stopped"]

\* mutant of play: the isLoaded() guard is missing
playUnguarded(e) == [e EXCEPT !.state = "Playing"]

play(e) == IF isLoaded(e) THEN [e EXCEPT !.state = "Playing"] ELSE e

\* mutant of pause: the playhead is rewound as stop() does
pauseRewinds(e) == [e EXCEPT !.state = "Paused", !.playbackPosition = 0]

pause(e) == [e EXCEPT !.state = "Paused"]

\* mutant of stop: the direction is negated instead of set
stopFlipsDirection(e) ==
  [e EXCEPT !.state = "Stopped",
            !.playbackPosition =
               IF e.reverse THEN SizeSub1(e.numSamples) * PosScale ELSE 0,
            !.pingPongDirection =
               IF e.reverse THEN -e.pingPongDirection ELSE 1]

stop(e) ==
  [e EXCEPT !.state = "Stopped",
            !.playbackPosition =
               IF e.reverse THEN SizeSub1(e.numSamples) * PosScale ELSE 0,
            !.pingPongDirection = IF e.reverse THEN -1 ELSE 1]

\* a seek that also stops playback
seekStops(e, normalizedPosition) ==
  IF e.numSamples > 0
  THEN [e EXCEPT !.playbackPosition =
                    wavClamp(normalizedPosition, 0, PosScale) * SizeSub1(e.numSamples),
                 !.state = "Stopped"]
  ELSE e

\* normalizedPosition is given in units of 1/PosScale
seek(e, normalizedPosition) ==
  IF e.numSamples > 0
  THEN LET clamped == wavClamp(normalizedPosition, 0, PosScale)
       IN [e EXCEPT !.playbackPosition = clamped * SizeSub1(e.numSamples)]
  ELSE e

seekToSample(e, sampleIndex) ==
  IF e.numSamples > 0
  THEN [e EXCEPT !.playbackPosition =
                    Min(sampleIndex, SizeSub1(e.numSamples)) * PosScale]
  ELSE e

setSampleRate(e, sampleRate) == [e EXCEPT !.outputSampleRate = Max(1, sampleRate)]
setSpeed(e, speed) == [e EXCEPT !.speed = wavClamp(speed, 1, 10000)]
setPitch(e, pitch) == [e EXCEPT !.pitch = wavClamp(pitch, 1, 10000)]
setVolume(e, volume) == [e EXCEPT !.volume = wavClamp(volume, 0, 100)]

setReverse(e, reverse) ==
  LET wasReverse == e.reverse
      e1 == [e EXCEPT !.reverse = reverse]
  IN IF wasReverse # reverse /\ e.state = "Stopped"
     THEN [e1 EXCEPT !.playbackPosition =
                        IF reverse THEN SizeSub1(e.numSamples) * PosScale ELSE 0,
                     !.pingPongDirection = IF reverse THEN -1 ELSE 1]
     ELSE e1

setLoopMode(e, mode) == [e EXCEPT !.loopMode = mode]
setInterpolationQuality(e, quality) == [e EXCEPT !.interpolation = quality]

\* a rate that leaves the pitch out
rateWithoutPitch(e) ==
  LET rateRatio == IF e.outputSampleRate > 0
                   THEN (e.fileSampleRate * PosScale) \div e.outputSampleRate
                   ELSE PosScale
  IN (rateRatio * e.speed) \div 100

\* the per-tick advance in playhead units
getEffectivePlaybackRate(e) ==
  LET rateRatio == IF e.outputSampleRate > 0
                   THEN (e.fileSampleRate * PosScale) \div e.outputSampleRate
                   ELSE PosScale
  IN (rateRatio * ((e.speed * e.pitch) \div 100)) \div 100

\* while (pos < 0.0) pos += len;   hang: the loop never ends (len = 0).
\* For len > 0 the loop ends at the residue of pos modulo len.
WrapUp(pos, len) == IF pos < 0 THEN pos % len ELSE pos
\* while (pos >= len) pos -= len;
WrapDown(pos, len) == IF pos >= len THEN pos % len ELSE pos

\* advancePosition: the new position, state and direction;
\* raw: the position before the boundaries are handled;
\* hang: a wrap loop that cannot end
advancePosition(e) ==
  LET rate == getEffectivePlaybackRate(e)
      loop == e.loopMode
      rev == e.reverse
      direction == e.pingPongDirection
      d1 == IF rev THEN -rate ELSE rate
      delta == IF loop = "PingPong" THEN d1 * direction ELSE d1
      pos == e.playbackPosition + delta
      len == e.numSamples * PosScale
      maxPos == SizeSub1(e.numSamples) * PosScale
      same == [pos |-> pos, state |-> e.state, dir |-> direction, raw |-> pos,
               hang |-> FALSE]
  IN CASE loop = "Off" ->
            \* the clamp is done in float: pos is outside already, so it
            \* yields 0 or the float nearest to numSamples_ - 1
            IF pos < 0 \/ pos >= len
            THEN [same EXCEPT !.state = "Stopped",
                              !.pos = IF pos < 0 THEN wavClamp(pos, 0, 0)
                                      ELSE FloatOf(SizeSub1(e.numSamples)) * PosScale]
            ELSE same
       [] loop = "Forward" ->
            IF rev
            THEN IF pos < 0 /\ len = 0 THEN [same EXCEPT !.hang = TRUE]
                 ELSE [same EXCEPT !.pos = WrapUp(pos, len)]
            ELSE IF pos >= len /\ len = 0 THEN [same EXCEPT !.hang = TRUE]
                 ELSE [same EXCEPT !.pos = WrapDown(pos, len)]
       [] loop = "PingPong" ->
            IF pos < 0 THEN [same EXCEPT !.pos = -pos, !.dir = -direction]
            ELSE IF pos > maxPos
                 THEN [same EXCEPT !.pos = maxPos - (pos - maxPos), !.dir = -direction]
                 ELSE same

\* an advance that never stores the direction
AdvancedKeepsDirection(e) ==
  LET a == advancePosition(e) IN
    [e EXCEPT !.playbackPosition = a.pos, !.state = a.state]

Advanced(e) ==
  LET a == advancePosition(e) IN
    [e EXCEPT !.playbackPosition = a.pos, !.state = a.state,
              !.pingPongDirection = a.dir]

----------------------------------------------------------------------------
\* Reading the buffer.  Interpolated values are numerators over 2 * PosScale^3
\* (times 2^exp of the samples), so that every quality is exact in integers.

\* static_cast<size_t>(pos): truncation for pos >= 0.  For a negative
\* position the conversion is undefined; builds give 0 (saturating) or the
\* truncated value wrapped to size_t.
IndexOf(pos) ==
  IF pos >= 0 THEN {(pos \div PosScale) % SizeMod}
  ELSE {0, (-((-pos) \div PosScale)) % SizeMod}

\* getSampleSafe: the index into audioData_ (0-based) that is read
getSampleSafe(e, frameIdx, channel) ==
  LET fi == IF frameIdx >= e.numSamples THEN SizeSub1(e.numSamples) ELSE frameIdx
  IN (fi * e.numChannels + channel) % SizeMod

\* the frames an interpolation quality reads around idx, in the code's order
Taps(quality, idx) ==
  CASE quality = "None"   -> <<idx>>
    [] quality = "Linear" -> <<idx, (idx + 1) % SizeMod>>
    [] OTHER              -> <<IF idx > 0 THEN idx - 1 ELSE 0, idx,
                               (idx + 1) % SizeMod, (idx + 2) % SizeMod>>

\* the buffer indices one channel's interpolation reads
TapIndices(e, idx, channel) ==
  LET t == Taps(e.interpolation, idx)
  IN [i \in 1..Len(t) |-> getSampleSafe(e, t[i], channel)]

\* the channels a processing call reads: one for a mono file, two otherwise
ReadChannels(e) == IF e.numChannels = 1 THEN {0} ELSE {0, 1}

\* every buffer index a processing call at frame idx reads
ReadSet(e, idx) ==
  UNION {{TapIndices(e, idx, c)[i] : i \in 1..Len(Taps(e.interpolation, idx))}
           : c \in ReadChannels(e)}

InBounds(e, idx) == \A i \in ReadSet(e, idx) : i < Len(e.audioData)

linearInterpolate(y0, y1, t) ==
  (PosScale * y0 + t * (y1 - y0)) * 2 * PosScale * PosScale

cubicInterpolate(y0, y1, y2, y3, t) ==
  LET a0x2 == -y0 + 3 * y1 - 3 * y2 + y3
      a1x2 == 2 * y0 - 5 * y1 + 4 * y2 - y3
      a2x2 == -y0 + y2
      a3x2 == 2 * y1
  IN a0x2 * t * t * t + a1x2 * t * t * PosScale
     + a2x2 * t * PosScale * PosScale + a3x2 * PosScale * PosScale * PosScale

\* interpolateMono / one channel of interpolateStereo, all reads in bounds
Interpolate(e, idx, frac, channel) ==
  LET ix == TapIndices(e, idx, channel)
      y == [i \in 1..Len(ix) |-> e.audioData[ix[i] + 1].num]
  IN CASE e.interpolation = "None"   -> y[1] * 2 * PosScale * PosScale * PosScale
       [] e.interpolation = "Linear" -> linearInterpolate(y[1], y[2], frac)
       [] OTHER                      -> cubicInterpolate(y[1], y[2], y[3], y[4], frac)

\* exponent of the samples of the loaded buffer
BufExp(e) == IF Len(e.audioData) > 0 THEN e.audioData[1].exp ELSE 0

\* linearInterpolate / cubicInterpolate where a sample is not finite: every
\* finite term is some finite float (Dy(0, 0) stands for it)
linearInterpolateNonFinite(y0, y1, t) ==
  FAdd(y0, FTimes(FAdd(y1, FNeg(y0)), t))
cubicInterpolateNonFinite(y0, y1, y2, y3, t) ==
  LET a0 == FAdd(FAdd(FNeg(y0), y1), FAdd(FNeg(y2), y3))
      a1 == FAdd(FAdd(y0, FNeg(y1)), FAdd(y2, FNeg(y3)))
      a2 == FAdd(FNeg(y0), y2)
      a3 == y1
  IN FAdd(FAdd(FTimes(a0, t), FTimes(a1, t)), FAdd(FTimes(a2, t), a3))

\* interpolateMono / one channel of interpolateStereo as a float: the
\* finite results are numerators over 2 * PosScale^3 times 2^BufExp
InterpolateFloat(e, idx, frac, channel) ==
  LET ix == TapIndices(e, idx, channel)
      y == [i \in 1..Len(ix) |-> e.audioData[ix[i] + 1]]
  IN IF e.interpolation = "None" THEN y[1]
     ELSE IF \A i \in 1..Len(ix) : IsFinite(y[i])
       THEN Dy(Interpolate(e, idx, frac, channel), BufExp(e) + 1 + 3 * PosBits)
     ELSE IF e.interpolation = "Linear" THEN linearInterpolateNonFinite(y[1], y[2], frac)
     ELSE cubicInterpolateNonFinite(y[1], y[2], y[3], y[4], frac)

Silence == [l |-> 0, r |-> 0, exp |-> 0]

\* readInterpolatedSampleStereo times volume; numerators over
\* 40 * PosScale^3 * 2^exp
StereoValue(e, idx, frac) ==
  LET left == Interpolate(e, idx, frac, 0)
      right == IF e.numChannels = 1 THEN left ELSE Interpolate(e, idx, frac, 1)
  IN [l |-> 2 * left * e.volume, r |-> 2 * right * e.volume, exp |-> BufExp(e)]

\* readInterpolatedSample times volume (a stereo file is mixed to mono)
MonoValue(e, idx, frac) ==
  LET left == Interpolate(e, idx, frac, 0)
      mix == IF e.numChannels = 1 THEN 2 * left
             ELSE left + Interpolate(e, idx, frac, 1)
  IN [l |-> mix * e.volume, r |-> mix * e.volume, exp |-> BufExp(e)]

\* what a read may return when the position is negative or an index is out
\* of bounds (undefined behaviour): some value
Garbage == {[l |-> 0, r |-> 0, exp |-> 0], [l |-> 1, r |-> 1, exp |-> 0]}

\* the values a processing call may return for the engine as it is
ReadValues(e, stereo) ==
  IF e.playbackPosition < 0 THEN Garbage
  ELSE LET idx == e.playbackPosition \div PosScale
           frac == e.playbackPosition % PosScale
       IN IF ~InBounds(e, idx) THEN Garbage
          ELSE {IF stereo THEN StereoValue(e, idx, frac) ELSE MonoValue(e, idx, frac)}

----------------------------------------------------------------------------
\* Inputs: the WAV images that are loaded

\* mono, 8 bit, 3 frames
FileA == WavImage("a.wav", TRUE, 47, TRUE,
                  {FmtHdr(12, 16, 1, 1, 44100, 8), DataHdr(36, 3)},
                  <<192, 64, 160>>)
\* stereo, 16 bit, 2 frames, behind a chunk of odd size
FileB == WavImage("b.wav", TRUE, 64, TRUE,
                  {OtherHdr(12, 3), FmtHdr(24, 16, 1, 2, 44100, 16), DataHdr(48, 8)},
                  <<16384, 49152, 8192, 57344>>)
\* mono, 8 bit, 1 frame
FileC == WavImage("c.wav", TRUE, 45, TRUE,
                  {FmtHdr(12, 16, 1, 1, 44100, 8), DataHdr(36, 1)},
                  <<255>>)
\* mono, 8 bit, 2 frames, with a sample rate of 0 in its format chunk
ZeroRate == WavImage("zerorate.wav", TRUE, 46, TRUE,
                     {FmtHdr(12, 16, 1, 1, 0, 8), DataHdr(36, 2)},
                     <<0, 255>>)
GoodFiles == {FileA, FileB, FileC, ZeroRate}
\* mono, 32-bit float, 4 frames: 0.25, -0.5, +infinity, 0.75
FloatFile == WavImage("float.wav", TRUE, 60, TRUE,
                      {FmtHdr(12, 16, 3, 1, 44100, 32), DataHdr(36, 16)},
                      <<Dy(1, 2), Dy(-2, 2), Infinity, Dy(3, 2)>>)
\* stereo, 8 bit, 4 frames
FileS == WavImage("s.wav", TRUE, 52, TRUE,
                  {FmtHdr(12, 16, 1, 2, 44100, 8), DataHdr(36, 8)},
                  <<192, 64, 160, 32, 0, 255, 128, 129>>)

NullPath == WavImage("", FALSE, 0, FALSE, {}, <<>>)
NoFile == WavImage("missing.wav", FALSE, 0, FALSE, {}, <<>>)
Tiny == WavImage("tiny.wav", TRUE, 12, TRUE, {}, <<>>)
BadRiff == WavImage("badriff.wav", TRUE, 47, FALSE,
                    {FmtHdr(12, 16, 1, 1, 44100, 8), DataHdr(36, 3)}, <<192, 64, 160>>)
NoData == WavImage("nodata.wav", TRUE, 36, TRUE,
                   {FmtHdr(12, 16, 1, 1, 44100, 8)}, <<>>)
DataFirst == WavImage("datafirst.wav", TRUE, 47, TRUE,
                      {DataHdr(12, 3), FmtHdr(23, 16, 1, 1, 44100, 8)}, <<192, 64, 160>>)
ShortFmtSize == WavImage("shortfmt.wav", TRUE, 47, TRUE,
                         {FmtHdr(12, 8, 1, 1, 44100, 8), DataHdr(36, 3)}, <<192, 64, 160>>)
Chan3 == WavImage("chan3.wav", TRUE, 47, TRUE,
                  {FmtHdr(12, 16, 1, 3, 44100, 8), DataHdr(36, 3)}, <<192, 64, 160>>)
Adpcm == WavImage("adpcm.wav", TRUE, 47, TRUE,
                  {FmtHdr(12, 16, 2, 1, 44100, 8), DataHdr(36, 3)}, <<192, 64, 160>>)
ZeroFrames == WavImage("zero.wav", TRUE, 44, TRUE,
                       {FmtHdr(12, 16, 1, 1, 44100, 8), DataHdr(36, 0)}, <<>>)
Truncated == WavImage("trunc.wav", TRUE, 46, TRUE,
                      {FmtHdr(12, 16, 1, 1, 44100, 8), DataHdr(36, 4)}, <<192, 64>>)
BadFiles == {NullPath, NoFile, Tiny, BadRiff, NoData, DataFirst, ShortFmtSize,
             Chan3, Adpcm, ZeroFrames, Truncated}

Files == GoodFiles \cup BadFiles

\* well-formed images of one format chunk and one data chunk of 8 bytes, for
\* every combination of format code, channel count and bit depth drawn
FormatCodes == {1, 2, 3, 65534}
ChannelCounts == {0, 1, 2, 3}
BitDepths == {4, 8, 12, 16, 24, 32}
FormatImage(af, ch, bits) ==
  WavImage("format.wav", TRUE, 52, TRUE,
           {FmtHdr(12, 16, af, ch, 44100, bits), DataHdr(36, 8)},
           IF af = kWavFormatIEEEFloat /\ bits = 32
           THEN [i \in 1..8 |-> Dy(i - 4, 2)]
           ELSE [i \in 1..8 |-> 31 * i])
FormatFiles ==
  {FormatImage(af, ch, bits) : af \in FormatCodes, ch \in ChannelCounts, bits \in BitDepths}

\* PCM images that begin with a chunk of another kind, of size s, followed
\* by the format chunk and a data chunk of d bytes.  A size of 0xFFFFFFFF
\* (-1) is declared by a chunk that in fact has no payload in the image.
ChunkSizes == {0, 1, 2, 3, -1}
DataSizes == {0, 1, 3, 4}
ChunkImage(s, d, ch, bits) ==
  LET at == 20 + (IF s = -1 THEN 0 ELSE s + (s % 2))
  IN WavImage("chunk.wav", TRUE, at + 32 + d, TRUE,
              {OtherHdr(12, s), FmtHdr(at, 16, 1, ch, 44100, bits), DataHdr(at + 24, d)},
              [i \in 1..d |-> 31 * i])
ChunkFiles ==
  {ChunkImage(s, d, ch, bits) : s \in ChunkSizes, d \in DataSizes, ch \in {1, 2},
                                bits \in {8, 16}}

\* Inputs of the setters
SpeedInputs == {100, 200}
PitchInputs == {100, 100000}
SeekInputs == {-PosScale, PosScale \div 2, 2 * PosScale}
SampleIndexInputs == {0, 1, 5}
SampleRateInputs == {-44100, 0, 48000}
LoopModes == {"Off", "Forward", "PingPong"}

\* the knobs of the module as its constructor configures them: loop mode
\* 0..2, reverse switch, speed in octaves, pitch in semitones, volume in
\* tenths, interpolation quality 0..2, slice count
DefaultParams ==
  [LOOP_MODE |-> 0, REVERSE |-> FALSE, SPEED |-> 0, PITCH |-> 0,
   VOLUME |-> 10, INTERP_QUALITY |-> 2, NUM_SLICES |-> 1]

\* knob settings that are dialled in; the slice count stays 1
ParamInputs ==
  {DefaultParams,
   [DefaultParams EXCEPT !.LOOP_MODE = 1, !.SPEED = 1],
   [DefaultParams EXCEPT !.LOOP_MODE = 2, !.REVERSE = TRUE, !.INTERP_QUALITY = 1],
   [DefaultParams EXCEPT !.PITCH = -12, !.VOLUME = 20, !.INTERP_QUALITY = 0]}

----------------------------------------------------------------------------
\* The engine driven from one thread: every call runs to completion

Idle == [pc |-> "idle"]
\* the module's slice state (WavPlayer.hpp:70-71) and the equaliser
\* (dsp/3-band-eq.h:169-171), as constructed; frequencies in Hz
RestInit ==
  /\ slices_ = <<>> /\ currentSlice_ = 0
  /\ sampleRate_ = 44100 /\ lowFreq_ = 880 /\ highFreq_ = 5000

\* a completed call: its name, its argument where a claim needs it (a
\* number, or the image given to a load), the error and the samples it
\* returned
Void == [op |-> "none", arg |-> 0, file |-> NullPath, err |-> "None", out |-> Silence]
Ret(op) == [op |-> op, arg |-> 0, file |-> NullPath, err |-> "None", out |-> Silence]

Init ==
  /\ EngIs(NewEngine)
  /\ mutex_ = "free"
  /\ fileLoading_ = FALSE /\ fileLoaded_ = FALSE /\ fileMutex_ = "free"
  /\ params = DefaultParams
  /\ RestInit
  /\ ctl = Idle /\ aud = Idle
  /\ ret = Void

otherVars == <<mutex_, moduleVars, restVars, ctl, aud>>

\* the position is inside the explored window
InWindow(pos) == -PosCap * PosScale <= pos /\ pos <= PosCap * PosScale

\* loadFile / loadFromMemory of a file drawn from F
LoadFileCall(f, allocOk) ==
  /\ ret.err # "Crash"
  /\ SetEng(loadFile(Eng, f, allocOk))
  /\ ret' = [Ret("loadFile") EXCEPT !.err = ParseFile(f, allocOk).err, !.file = f]

LoadFileOf(F) ==
  \E f \in F, allocOk \in BOOLEAN :
    LoadFileCall(f, allocOk) /\ UNCHANGED otherVars

\* what an integer division by zero does: the process is killed, or the
\* quotient is 0 and the frame count of 0 is refused
DivideByZero == {"Crash", "CorruptedData"}

LoadFromMemoryCall(f, allocOk) ==
  /\ ret.err # "Crash"
  /\ IF ParseMemory(f, allocOk).ub
     THEN /\ \E o \in DivideByZero :
               ret' = [Ret("loadFromMemory") EXCEPT !.err = o, !.file = f]
          /\ UNCHANGED engineVars
     ELSE /\ SetEng(loadFromMemory(Eng, f, allocOk))
          /\ ret' = [Ret("loadFromMemory") EXCEPT !.err = ParseMemory(f, allocOk).err,
                                                  !.file = f]

LoadFromMemoryOf(F) ==
  \E f \in F, allocOk \in BOOLEAN :
    LoadFromMemoryCall(f, allocOk) /\ UNCHANGED otherVars

Unload == SetEng(unload(Eng)) /\ ret' = Ret("unload") /\ UNCHANGED otherVars
Play == SetEng(play(Eng)) /\ ret' = Ret("play") /\ UNCHANGED otherVars
Pause == SetEng(pause(Eng)) /\ ret' = Ret("pause") /\ UNCHANGED otherVars
Stop == SetEng(stop(Eng)) /\ ret' = Ret("stop") /\ UNCHANGED otherVars

Seek ==
  \E x \in SeekInputs :
    SetEng(seek(Eng, x)) /\ ret' = [Ret("seek") EXCEPT !.arg = x]
    /\ UNCHANGED otherVars

SeekToSample ==
  \E i \in SampleIndexInputs :
    SetEng(seekToSample(Eng, i)) /\ ret' = [Ret("seekToSample") EXCEPT !.arg = i]
    /\ UNCHANGED otherVars

SetReverse ==
  \E r \in BOOLEAN :
    SetEng(setReverse(Eng, r)) /\ ret' = Ret("setReverse") /\ UNCHANGED otherVars

SetSampleRate ==
  \E sr \in SampleRateInputs :
    SetEng(setSampleRate(Eng, sr)) /\ ret' = [Ret("setSampleRate") EXCEPT !.arg = sr]
    /\ UNCHANGED otherVars

SetLoopMode ==
  \E m \in LoopModes :
    SetEng(setLoopMode(Eng, m)) /\ ret' = Ret("setLoopMode") /\ UNCHANGED otherVars

SetSpeed ==
  \E s \in SpeedInputs :
    SetEng(setSpeed(Eng, s)) /\ ret' = Ret("setSpeed") /\ UNCHANGED otherVars

SetPitch ==
  \E p \in PitchInputs :
    SetEng(setPitch(Eng, p)) /\ ret' = Ret("setPitch") /\ UNCHANGED otherVars

\* a guard that looks at the buffer only
producesWhenLoaded(e) == isLoaded(e)

\* the guard of processSample and processSampleStereo
produces(e) == isLoaded(e) /\ e.state = "Playing"

\* processSample (stereo = FALSE) and processSampleStereo (stereo = TRUE)
Process(stereo) ==
  LET op == IF stereo THEN "processSampleStereo" ELSE "processSample" IN
  /\ IF ~produces(Eng)
     THEN /\ ret' = Ret(op)
          /\ UNCHANGED engineVars
     ELSE /\ InWindow(playbackPosition_)
          /\ ~advancePosition(Eng).hang
          /\ \E v \in ReadValues(Eng, stereo) : ret' = [Ret(op) EXCEPT !.out = v]
          /\ SetEng(Advanced(Eng))
  /\ UNCHANGED otherVars

ProcessSample == Process(FALSE)
ProcessSampleStereo == Process(TRUE)

\* The transport: one file of three frames and one of a single frame
TransportFiles == {FileA, FileC}
LoadFile == LoadFileOf(TransportFiles)

Next ==
  \/ LoadFile \/ Unload
  \/ Play \/ Pause \/ Stop \/ Seek \/ SeekToSample
  \/ SetReverse \/ SetLoopMode \/ SetSpeed \/ SetPitch
  \/ ProcessSample \/ ProcessSampleStereo

Spec == Init /\ [][Next]_vars

\* Loading: every image through both entry points, between transport calls
LoadAnyFile == LoadFileOf(Files)
LoadAnyMemory == LoadFromMemoryOf(Files)

NextLoad ==
  \/ LoadAnyFile \/ LoadAnyMemory \/ Unload
  \/ Play \/ Pause \/ SeekToSample \/ SetReverse \/ SetSampleRate

SpecLoad == Init /\ [][NextLoad]_vars

----------------------------------------------------------------------------
\* The engine under two threads.  A control thread runs loadFile,
\* loadFromMemory and unload store by store under mutex_; the audio thread
\* runs processSample / processSampleStereo, which take no lock: the guard,
\* the interpolated read and the advance are separate steps.

\* the stores of the commit block of a load, in program order
LoadStores == 9
LoadStore(e, p, path, k) ==
  CASE k = 1 -> [e EXCEPT !.audioData = p.data]
    [] k = 2 -> [e EXCEPT !.filePath = path]
    [] k = 3 -> [e EXCEPT !.fileSampleRate = p.sampleRate]
    [] k = 4 -> [e EXCEPT !.numChannels = p.numChannels]
    [] k = 5 -> [e EXCEPT !.numSamples = p.numFrames]
    [] k = 6 -> [e EXCEPT !.bitsPerSample = p.bitsPerSample]
    [] k = 7 -> [e EXCEPT !.playbackPosition = 0]
    [] k = 8 -> [e EXCEPT !.state = "Stopped"]
    [] OTHER -> [e EXCEPT !.pingPongDirection = 1]

\* the stores of unload, in program order
UnloadStores == 6
UnloadStore(e, k) ==
  CASE k = 1 -> [e EXCEPT !.audioData = <<>>]
    [] k = 2 -> [e EXCEPT !.filePath = ""]
    [] k = 3 -> [e EXCEPT !.numSamples = 0]
    [] k = 4 -> [e EXCEPT !.numChannels = 1]
    [] k = 5 -> [e EXCEPT !.playbackPosition = 0]
    [] OTHER -> [e EXCEPT !.state = "Stopped"]

\* what the audio thread has observed: the buffer, channel count and frame
\* count its last read used, the buffer indices it read, and the value
NoView == [buf |-> <<>>, ch |-> 1, n |-> 0]
AudIdle == [pc |-> "idle", stereo |-> FALSE, seen |-> NoView, reads |-> {},
            len |-> 0, val |-> Silence]

\* the process is alive: no read has faulted
Alive == aud.pc # "fault"

\* the call returns to its caller: directly, or to the loader thread of the
\* module (loadFileAsync), which goes on after it
Return(c, err) ==
  IF c.via = "async" THEN [pc |-> "post", via |-> "async", f |-> c.f, err |-> err]
  ELSE Idle

\* loadFile / loadFromMemory: argument check, then lock
CtlLoadBegin(op) ==
    /\ Alive /\ ctl.pc = "call" /\ ctl.op = op
    /\ LET f == ctl.f
           bad == IF op = "loadFile" THEN f.name = ""
                  ELSE ~f.exists \/ f.size < 12 + 8
       IN IF bad
          THEN /\ ctl' = Return(ctl, "InvalidParameter")
               /\ ret' = [Ret(op) EXCEPT !.err = "InvalidParameter"]
               /\ UNCHANGED mutex_
          ELSE /\ mutex_ = "free"
               /\ mutex_' = "ctl"
               /\ ctl' = [ctl EXCEPT !.pc = "parse"]
               /\ UNCHANGED ret
    /\ UNCHANGED <<engineVars, moduleVars, restVars, aud>>

\* open, parse and convert into newData; an error returns and unlocks
CtlParse ==
  /\ Alive /\ ctl.pc = "parse"
  /\ \E allocOk \in BOOLEAN :
       LET p == IF ctl.op = "loadFile" THEN ParseFile(ctl.f, allocOk)
                ELSE ParseMemory(ctl.f, allocOk)
       IN /\ ~p.ub
          /\ IF p.err # "None"
             THEN /\ ctl' = Return(ctl, p.err)
                  /\ ret' = [Ret(ctl.op) EXCEPT !.err = p.err]
                  /\ mutex_' = "free"
             ELSE /\ ctl' = [ctl EXCEPT !.pc = "store", !.k = 1, !.p = p]
                  /\ UNCHANGED <<ret, mutex_>>
  /\ UNCHANGED <<engineVars, moduleVars, restVars, aud>>

\* one store of the commit block
CtlStore ==
  /\ Alive /\ ctl.pc = "store"
  /\ SetEng(LoadStore(Eng, ctl.p, IF ctl.op = "loadFile" THEN ctl.f.name ELSE "", ctl.k))
  /\ IF ctl.k < LoadStores
     THEN ctl' = [ctl EXCEPT !.k = ctl.k + 1] /\ UNCHANGED <<ret, mutex_>>
     ELSE /\ ctl' = Return(ctl, "None")
          /\ ret' = Ret(ctl.op)
          /\ mutex_' = "free"
  /\ UNCHANGED <<moduleVars, restVars, aud>>

CtlUnloadBegin ==
  /\ Alive /\ ctl.pc = "idle" /\ mutex_ = "free"
  /\ mutex_' = "ctl"
  /\ ctl' = [pc |-> "unload", k |-> 1]
  /\ UNCHANGED <<engineVars, moduleVars, restVars, aud, ret>>

CtlUnloadStore ==
  /\ Alive /\ ctl.pc = "unload"
  /\ SetEng(UnloadStore(Eng, ctl.k))
  /\ IF ctl.k < UnloadStores
     THEN ctl' = [ctl EXCEPT !.k = ctl.k + 1] /\ UNCHANGED <<ret, mutex_>>
     ELSE ctl' = Idle /\ ret' = Ret("unload") /\ mutex_' = "free"
  /\ UNCHANGED <<moduleVars, restVars, aud>>

\* a call of loadFile / loadFromMemory made by the control thread itself
CtlCall(op, F) ==
  \E f \in F :
    /\ Alive /\ ctl.pc = "idle"
    /\ ctl' = [pc |-> "call", op |-> op, f |-> f, via |-> "direct",
               k |-> 0, p |-> ParseErr("None")]
    /\ UNCHANGED <<engineVars, mutex_, moduleVars, restVars, aud, ret>>

\* play(): lock-free, one store
CtlPlay ==
  /\ Alive /\ ctl.pc = "idle"
  /\ SetEng(play(Eng))
  /\ ret' = Ret("play")
  /\ UNCHANGED <<mutex_, moduleVars, restVars, ctl, aud>>

\* processSample / processSampleStereo: the guard
AudGuard ==
  \E stereo \in BOOLEAN :
    /\ Alive /\ aud.pc = "idle"
    /\ IF ~isLoaded(Eng) \/ state_ # "Playing"
       THEN /\ aud' = AudIdle
            /\ ret' = Ret(IF stereo THEN "processSampleStereo" ELSE "processSample")
       ELSE /\ aud' = [aud EXCEPT !.pc = "read", !.stereo = stereo]
            /\ UNCHANGED ret
    /\ UNCHANGED <<engineVars, mutex_, moduleVars, restVars, ctl>>

\* the interpolated read.  A read outside the buffer is undefined: the call
\* faults, or goes on with some value.
AudRead ==
  /\ Alive /\ aud.pc = "read"
  /\ InWindow(playbackPosition_)
  /\ \E idx \in IndexOf(playbackPosition_), v \in ReadValues(Eng, aud.stereo),
        faults \in BOOLEAN :
       /\ faults => ~InBounds(Eng, idx)
       /\ aud' = [pc |-> IF faults THEN "fault" ELSE "advance",
                  stereo |-> aud.stereo,
                  seen |-> [buf |-> audioData_, ch |-> numChannels_, n |-> numSamples_],
                  reads |-> ReadSet(Eng, idx), len |-> Len(audioData_),
                  val |-> v]
  /\ UNCHANGED <<engineVars, mutex_, moduleVars, restVars, ctl, ret>>

\* advancePosition, then the return.  With no frames left a wrap loop of
\* the Forward mode cannot end: the audio thread hangs.
AudAdvance ==
  /\ Alive /\ aud.pc = "advance"
  /\ IF advancePosition(Eng).hang
     THEN aud' = [aud EXCEPT !.pc = "hung"] /\ UNCHANGED <<engineVars, ret>>
     ELSE /\ SetEng(Advanced(Eng))
          /\ aud' = AudIdle
          /\ ret' = [Ret(IF aud.stereo THEN "processSampleStereo" ELSE "processSample")
                       EXCEPT !.out = aud.val]
  /\ UNCHANGED <<mutex_, moduleVars, restVars, ctl>>

\* the images loaded in the race: two of different length and channel
\* count, and one that is refused
RaceFiles == {FileA, FileB, NullPath}

InitRace ==
  /\ EngIs(NewEngine)
  /\ mutex_ = "free"
  /\ fileLoading_ = FALSE /\ fileLoaded_ = FALSE /\ fileMutex_ = "free"
  /\ params = DefaultParams
  /\ RestInit
  /\ ctl = Idle /\ aud = AudIdle
  /\ ret = Void

CtlCallLoadFile == CtlCall("loadFile", RaceFiles)
CtlCallLoadFromMemory == CtlCall("loadFromMemory", RaceFiles)
CtlLoadFileBegin == CtlLoadBegin("loadFile")
CtlLoadFromMemoryBegin == CtlLoadBegin("loadFromMemory")

NextRace ==
  \/ CtlCallLoadFile \/ CtlCallLoadFromMemory
  \/ CtlLoadFileBegin \/ CtlLoadFromMemoryBegin
  \/ CtlParse \/ CtlStore
  \/ CtlUnloadBegin \/ CtlUnloadStore
  \/ CtlPlay
  \/ AudGuard \/ AudRead \/ AudAdvance

SpecRace == InitRace /\ [][NextRace]_vars

----------------------------------------------------------------------------
\* The Rack module: loadFileAsync requests from the UI thread, the loader
\* thread it spawns, and process() on the audio thread.  The trigger and CV
\* inputs are left unpatched and the slice count stays 1, so slices_ is
\* empty throughout.

\* std::pow(2.0f, oct) in hundredths
OctRatio(oct) == IF oct >= 0 THEN 100 * Pow2(oct) ELSE 100 \div Pow2(-oct)

LoopModeOf(k) == CASE k = 0 -> "Off" [] k = 1 -> "Forward" [] OTHER -> "PingPong"
QualityOf(k) == CASE k = 0 -> "None" [] k = 1 -> "Linear" [] OTHER -> "Cubic"

\* updatePlayerParameters: the knobs are written to the engine on every tick
updatePlayerParameters(e, pr) ==
  LET e1 == setLoopMode(e, LoopModeOf(pr.LOOP_MODE))
      e2 == setReverse(e1, pr.REVERSE)
      e3 == setSpeed(e2, OctRatio(pr.SPEED))
      e4 == setPitch(e3, OctRatio(pr.PITCH \div 12))
      e5 == setVolume(e4, pr.VOLUME)
  IN setInterpolationQuality(e5, QualityOf(pr.INTERP_QUALITY))

\* process() up to the audio branch: the play and stop buttons, then the
\* knobs
Controlled(e, playPressed, stopPressed, pr) ==
  LET e1 == IF ~playPressed THEN e
            ELSE IF e.state = "Playing" THEN pause(e) ELSE play(e)
      e2 == IF stopPressed THEN stop(e1) ELSE e1
  IN updatePlayerParameters(e2, pr)

\* the audio branch of process() is taken
Generates(e) == fileLoaded_ /\ e.state = "Playing"

\* setVoltage(x * 5.0f): the sample pair with its gain
Voltage(v) == [l |-> v.l, r |-> v.r, exp |-> v.exp, gain |-> 5]

ModIdle == [pc |-> "idle", play |-> FALSE, stop |-> FALSE]

\* a knob is turned
SetParams ==
  /\ Alive
  /\ \E pr \in ParamInputs : pr # params /\ params' = pr
  /\ UNCHANGED <<engineVars, mutex_, restVars, fileLoading_, fileLoaded_, fileMutex_, ctl, aud, ret>>

\* the images offered to the module: two that load and one that does not
ModuleFiles == {FileA, FileB, NoFile}

\* loadFileAsync: refused while a load is running, else the flags are set
\* and the loader thread is started
LoadFileAsync ==
  \E f \in ModuleFiles :
    /\ Alive
    /\ IF fileLoading_
       THEN UNCHANGED <<fileLoading_, fileLoaded_, ctl>>
       ELSE /\ fileLoading_' = TRUE
            /\ fileLoaded_' = FALSE
            /\ ctl' = [pc |-> "spawned", op |-> "loadFile", f |-> f,
                       via |-> "async", k |-> 0, p |-> ParseErr("None")]
    /\ UNCHANGED <<engineVars, mutex_, restVars, fileMutex_, params, aud, ret>>

\* the loader thread takes fileMutex_ and calls player.loadFile
LoaderLock ==
  /\ Alive /\ ctl.pc = "spawned" /\ fileMutex_ = "free"
  /\ fileMutex_' = "loader"
  /\ ctl' = [ctl EXCEPT !.pc = "call"]
  /\ UNCHANGED <<engineVars, mutex_, restVars, fileLoading_, fileLoaded_, params, aud, ret>>

\* after loadFile: fileLoaded_ is stored from the result (updateSlices
\* leaves slices_ empty)
LoaderResult ==
  /\ Alive /\ ctl.pc = "post"
  /\ fileLoaded_' = (ctl.err = "None")
  /\ ctl' = [ctl EXCEPT !.pc = "done"]
  /\ UNCHANGED <<engineVars, mutex_, restVars, fileLoading_, fileMutex_, params, aud, ret>>

\* fileLoading_.store(false), and the thread ends
LoaderDone ==
  /\ Alive /\ ctl.pc = "done"
  /\ fileLoading_' = FALSE
  /\ fileMutex_' = "free"
  /\ ctl' = Idle
  /\ ret' = [Ret("loadFileAsync") EXCEPT !.err = ctl.err]
  /\ UNCHANGED <<engineVars, mutex_, restVars, fileLoaded_, params, aud>>

\* process(): one audio tick.  ret.out is the pair of output voltages.
ModuleProcess ==
  \E playPressed, stopPressed \in BOOLEAN :
    /\ Alive /\ aud.pc = "idle"
    /\ LET e == Controlled(Eng, playPressed, stopPressed, params)
           tick == [pc |-> "idle", play |-> playPressed, stop |-> stopPressed]
       IN IF ~Generates(e) \/ ~isLoaded(e)
          THEN /\ SetEng(e)
               /\ aud' = tick
               /\ ret' = [Ret("process") EXCEPT !.out = Voltage(Silence)]
          ELSE /\ InWindow(e.playbackPosition)
               /\ \E idx \in IndexOf(e.playbackPosition), v \in ReadValues(e, TRUE),
                     faults \in BOOLEAN :
                    /\ faults => ~InBounds(e, idx)
                    /\ IF faults
                       THEN /\ SetEng(e)
                            /\ aud' = [tick EXCEPT !.pc = "fault"]
                            /\ UNCHANGED ret
                       ELSE IF advancePosition(e).hang
                       THEN /\ SetEng(e)
                            /\ aud' = [tick EXCEPT !.pc = "hung"]
                            /\ UNCHANGED ret
                       ELSE /\ SetEng(Advanced(e))
                            /\ aud' = tick
                            /\ ret' = [Ret("process") EXCEPT !.out = Voltage(v)]
    /\ UNCHANGED <<mutex_, moduleVars, restVars, ctl>>

InitModule ==
  /\ EngIs(NewEngine)
  /\ mutex_ = "free"
  /\ fileLoading_ = FALSE /\ fileLoaded_ = FALSE /\ fileMutex_ = "free"
  /\ params = DefaultParams
  /\ RestInit
  /\ ctl = Idle /\ aud = ModIdle
  /\ ret = Void

NextModule ==
  \/ LoadFileAsync \/ LoaderLock
  \/ CtlLoadFileBegin \/ CtlParse \/ CtlStore
  \/ LoaderResult \/ LoaderDone
  \/ SetParams
  \/ ModuleProcess

SpecModule == InitModule /\ [][NextModule]_vars

----------------------------------------------------------------------------
\* advancePosition on its own: the fields it reads are drawn from bounded
\* sets that hold short buffers, the ten-frame buffer of the documentation
\* and a buffer longer than 2^24 frames, and it is applied once.

LongFile == 16777220
FrameCounts == {1, 3, 10, LongFile}

\* playheads of a playing buffer of n frames, in playhead units
PlayheadsOf(n) ==
  {p \in {0, PosScale \div 2, PosScale, (n - 2) * PosScale, (n - 1) * PosScale,
          (n - 1) * PosScale + PosScale \div 2} : 0 <= p /\ p < n * PosScale}

AdvanceSpeeds == {50, 100, 200, 300}
AdvancePitches == {100, 200}

InitAdvance ==
  /\ EngIs(NewEngine)
  /\ mutex_ = "free"
  /\ fileLoading_ = FALSE /\ fileLoaded_ = FALSE /\ fileMutex_ = "free"
  /\ params = DefaultParams
  /\ RestInit
  /\ ctl = Idle
  /\ ret = Void
  /\ \E n \in FrameCounts, m \in LoopModes, r \in BOOLEAN, d \in {-1, 1},
        s \in AdvanceSpeeds, pt \in AdvancePitches :
       \E p \in PlayheadsOf(n) :
         aud = [pc |-> "advance",
                e |-> [numSamples |-> n, playbackPosition |-> p, state |-> "Playing",
                       loopMode |-> m, reverse |-> r, pingPongDirection |-> d,
                       fileSampleRate |-> 44100, outputSampleRate |-> 44100,
                       speed |-> s, pitch |-> pt]]

\* the call of advancePosition at the end of a processing call
ApplyAdvance ==
  /\ aud.pc = "advance"
  /\ ~advancePosition(aud.e).hang
  /\ ret' = [op |-> "advancePosition", arg |-> aud.e, file |-> NullPath,
             err |-> "None", out |-> Advanced(aud.e)]
  /\ aud' = AudIdle
  /\ UNCHANGED <<engineVars, mutex_, moduleVars, restVars, ctl>>

NextAdvance == ApplyAdvance

SpecAdvance == InitAdvance /\ [][NextAdvance]_vars

----------------------------------------------------------------------------
\* The two parsers on their own: one image drawn from ParseFiles, given to
\* one of the two entry points of a new engine.

ParseFiles == FormatFiles \cup ChunkFiles

InitParse ==
  /\ EngIs(NewEngine)
  /\ mutex_ = "free"
  /\ fileLoading_ = FALSE /\ fileLoaded_ = FALSE /\ fileMutex_ = "free"
  /\ params = DefaultParams
  /\ RestInit
  /\ ctl = Idle
  /\ ret = Void
  /\ \E f \in ParseFiles : aud = [pc |-> "parse", e |-> f]

ParseLoadFile ==
  /\ aud.pc = "parse"
  /\ \E allocOk \in BOOLEAN : LoadFileCall(aud.e, allocOk)
  /\ aud' = AudIdle
  /\ UNCHANGED <<mutex_, moduleVars, restVars, ctl>>

ParseLoadFromMemory ==
  /\ aud.pc = "parse"
  /\ \E allocOk \in BOOLEAN : LoadFromMemoryCall(aud.e, allocOk)
  /\ aud' = AudIdle
  /\ UNCHANGED <<mutex_, moduleVars, restVars, ctl>>

NextParse == ParseLoadFile \/ ParseLoadFromMemory

SpecParse == InitParse /\ [][NextParse]_vars

----------------------------------------------------------------------------
\* The sample converter on its own: one sample of a supported integer bit
\* depth, given by the signed value it encodes, is converted.

IntegerDepths == {8, 16, 24, 32}
MostNegative(bits) == -Pow2(bits - 2) - Pow2(bits - 2)
MostPositive(bits) == Pow2(bits - 2) - 1 + Pow2(bits - 2)
SampleValues(bits) ==
  {MostNegative(bits), MostNegative(bits) + 1, MostNegative(bits) + 3,
   -Pow2(bits - 2) - 1, -Pow2(bits - 2), -100, -3, -1, 0, 1, 2, 100,
   Pow2(bits - 2), Pow2(bits - 2) + 1, MostPositive(bits) - 2,
   MostPositive(bits) - 1, MostPositive(bits)}

\* the raw code of a signed value: the unsigned byte for 8 bits, the
\* little-endian bytes read unsigned for 16 and 24 bits, the int32 itself
Encode(v, bits) ==
  CASE bits = 8  -> v + 128
    [] bits = 32 -> v
    [] OTHER     -> IF v < 0 THEN v + Pow2(bits) ELSE v

Sample(bits, v) == [bits |-> bits, value |-> v, code |-> Encode(v, bits)]

InitConvert ==
  /\ EngIs(NewEngine)
  /\ mutex_ = "free"
  /\ fileLoading_ = FALSE /\ fileLoaded_ = FALSE /\ fileMutex_ = "free"
  /\ params = DefaultParams
  /\ RestInit
  /\ ctl = Idle
  /\ ret = Void
  /\ \E bits \in IntegerDepths : \E v \in SampleValues(bits) :
       aud = [pc |-> "convert", e |-> Sample(bits, v)]

ApplyConvert ==
  /\ aud.pc = "convert"
  /\ ret' = [op |-> "convertSample", arg |-> aud.e, file |-> NullPath,
             err |-> "None", out |-> convertSample(aud.e.code, aud.e.bits)]
  /\ aud' = AudIdle
  /\ UNCHANGED <<engineVars, mutex_, moduleVars, restVars, ctl>>

NextConvert == ApplyConvert

SpecConvert == InitConvert /\ [][NextConvert]_vars

----------------------------------------------------------------------------
\* The interpolator on its own: a file is loaded, a quality is set, the
\* playhead stands at some position, and the samples of both channels are
\* read there (readInterpolatedSampleStereo).  The positions are those
\* inside the file and the negative ones that a PingPong reflection leaves
\* (from frame 0 of a 3-frame file a rate of 5 leads to -1, of 6 to -2).

ReadFiles == {FileA, FileS, FloatFile}
\* how far below 0 the playheads drawn reach, in frames
Reflected == 2
Qualities == {"None", "Linear", "Cubic"}

InitRead ==
  /\ mutex_ = "free"
  /\ fileLoading_ = FALSE /\ fileLoaded_ = FALSE /\ fileMutex_ = "free"
  /\ params = DefaultParams
  /\ RestInit
  /\ ctl = Idle
  /\ ret = Void
  /\ aud = [pc |-> "read"]
  /\ \E f \in ReadFiles, q \in Qualities :
       LET e == setInterpolationQuality(loadFile(NewEngine, f, TRUE), q)
       IN \E pos \in (-Reflected * PosScale)..(e.numSamples * PosScale - 1) :
            EngIs([e EXCEPT !.playbackPosition = pos])

\* what a read computes from a negative position (its index is undefined,
\* its fraction is the distance to that index): some float
UnknownFloats == {Dy(0, 0), NaN}

\* the call returns, for each channel, the value and the buffer indices it
\* read
ApplyRead ==
  /\ aud.pc = "read"
  /\ \E idx \in IndexOf(playbackPosition_), v \in UnknownFloats :
       LET frac == playbackPosition_ % PosScale
       IN ret' = [op |-> "readInterpolatedSampleStereo",
                  arg |-> [c \in ReadChannels(Eng) |-> TapIndices(Eng, idx, c)],
                  file |-> NullPath, err |-> "None",
                  out |-> [c \in ReadChannels(Eng) |->
                             IF playbackPosition_ < 0 THEN v
                             ELSE InterpolateFloat(Eng, idx, frac, c)]]
  /\ aud' = AudIdle
  /\ UNCHANGED <<engineVars, mutex_, moduleVars, restVars, ctl>>

NextRead == ApplyRead

SpecRead == InitRead /\ [][NextRead]_vars

----------------------------------------------------------------------------
\* Several threads that call loadFile, loadFromMemory and unload at the same
\* time.  ctl maps each thread to its position in its call; mutex_ is free or
\* names the thread that holds it.

NumThreads == 2
ThreadNames == <<"t1", "t2", "t3", "t4">>
Threads == {ThreadNames[i] : i \in 1..NumThreads}

LoaderFiles == {FileA, Tiny, NullPath}
LoaderOps == {"loadFile", "loadFromMemory", "unload"}

\* std::lock_guard<std::mutex> lock(mutex_): the constructor returns once
\* the mutex is free
lock_guardNoWait(m) == TRUE
lock_guard(m) == m = "free"

ThreadIdle == [pc |-> "idle", op |-> "none", f |-> NullPath, k |-> 0,
               p |-> ParseErr("None")]

InitLoaders ==
  /\ EngIs(NewEngine)
  /\ mutex_ = "free"
  /\ fileLoading_ = FALSE /\ fileLoaded_ = FALSE /\ fileMutex_ = "free"
  /\ params = DefaultParams
  /\ RestInit
  /\ ctl = [t \in Threads |-> ThreadIdle]
  /\ aud = AudIdle
  /\ ret = Void

\* a thread calls one of the three operations
ThreadCall ==
  \E t \in Threads, op \in LoaderOps, f \in LoaderFiles :
    /\ ctl[t].pc = "idle"
    /\ op = "unload" => f = NullPath
    /\ ctl' = [ctl EXCEPT ![t] = [ThreadIdle EXCEPT !.pc = "call", !.op = op, !.f = f]]
    /\ UNCHANGED <<engineVars, mutex_, moduleVars, restVars, aud, ret>>

\* the argument check of a load, which returns before the lock is taken
ThreadCheck ==
  \E t \in Threads :
    /\ ctl[t].pc = "call"
    /\ LET c == ctl[t]
           bad == CASE c.op = "loadFile" -> c.f.name = ""
                    [] c.op = "loadFromMemory" -> ~c.f.exists \/ c.f.size < 12 + 8
                    [] OTHER -> FALSE
       IN IF bad
          THEN /\ ctl' = [ctl EXCEPT ![t] = ThreadIdle]
               /\ ret' = [Ret(c.op) EXCEPT !.err = "InvalidParameter", !.file = c.f]
          ELSE /\ ctl' = [ctl EXCEPT ![t].pc = "lock"]
               /\ UNCHANGED ret
    /\ UNCHANGED <<engineVars, mutex_, moduleVars, restVars, aud>>

\* the lock is acquired
ThreadLock ==
  \E t \in Threads :
    /\ ctl[t].pc = "lock"
    /\ lock_guard(mutex_)
    /\ mutex_' = t
    /\ ctl' = [ctl EXCEPT ![t].pc = IF ctl[t].op = "unload" THEN "unload" ELSE "parse",
                          ![t].k = 1]
    /\ UNCHANGED <<engineVars, moduleVars, restVars, aud, ret>>

\* open, parse and convert; an error returns, which unlocks
ThreadParse ==
  \E t \in Threads, allocOk \in BOOLEAN :
    /\ ctl[t].pc = "parse"
    /\ LET c == ctl[t]
           p == IF c.op = "loadFile" THEN ParseFile(c.f, allocOk)
                ELSE ParseMemory(c.f, allocOk)
       IN /\ ~p.ub
          /\ IF p.err # "None"
             THEN /\ ctl' = [ctl EXCEPT ![t] = ThreadIdle]
                  /\ ret' = [Ret(c.op) EXCEPT !.err = p.err, !.file = c.f]
                  /\ mutex_' = "free"
             ELSE /\ ctl' = [ctl EXCEPT ![t].pc = "store", ![t].p = p]
                  /\ UNCHANGED <<ret, mutex_>>
    /\ UNCHANGED <<engineVars, moduleVars, restVars, aud>>

\* one store of the commit block; after the last one the call returns
ThreadStore ==
  \E t \in Threads :
    /\ ctl[t].pc = "store"
    /\ LET c == ctl[t]
       IN /\ SetEng(LoadStore(Eng, c.p, IF c.op = "loadFile" THEN c.f.name ELSE "", c.k))
          /\ IF c.k < LoadStores
             THEN ctl' = [ctl EXCEPT ![t].k = c.k + 1] /\ UNCHANGED <<ret, mutex_>>
             ELSE /\ ctl' = [ctl EXCEPT ![t] = ThreadIdle]
                  /\ ret' = [Ret(c.op) EXCEPT !.file = c.f]
                  /\ mutex_' = "free"
    /\ UNCHANGED <<moduleVars, restVars, aud>>

\* one store of unload; after the last one the call returns
ThreadUnloadStore ==
  \E t \in Threads :
    /\ ctl[t].pc = "unload"
    /\ SetEng(UnloadStore(Eng, ctl[t].k))
    /\ IF ctl[t].k < UnloadStores
       THEN ctl' = [ctl EXCEPT ![t].k = ctl[t].k + 1] /\ UNCHANGED <<ret, mutex_>>
       ELSE /\ ctl' = [ctl EXCEPT ![t] = ThreadIdle]
            /\ ret' = Ret("unload")
            /\ mutex_' = "free"
    /\ UNCHANGED <<moduleVars, restVars, aud>>

NextLoaders ==
  \/ ThreadCall \/ ThreadCheck \/ ThreadLock
  \/ ThreadParse \/ ThreadStore \/ ThreadUnloadStore

SpecLoaders == InitLoaders /\ [][NextLoaders]_vars

----------------------------------------------------------------------------
\* One stop() on a control thread against one processing call on the audio
\* thread, from an engine with a file loaded.  Both run atomic access by
\* atomic access: stop() stores the state, the position and the direction;
\* the processing call passes its guard, reads, and in advancePosition loads
\* the parameters and the direction, loads the position, and stores.

StopPositions(n) == {i * PosScale : i \in 0..(n - 1)}

InitStop ==
  /\ mutex_ = "free"
  /\ fileLoading_ = FALSE /\ fileLoaded_ = FALSE /\ fileMutex_ = "free"
  /\ params = DefaultParams
  /\ RestInit
  /\ ctl = [pc |-> "stop", k |-> 1]
  /\ aud = [pc |-> "guard", stereo |-> FALSE, e |-> NewEngine, val |-> Silence]
  /\ ret = Void
  /\ \E loop \in LoopModes, rev \in BOOLEAN, st \in {"Playing", "Paused", "Stopped"},
        dir \in {-1, 1} :
       LET e == loadFile(NewEngine, FileA, TRUE)
       IN \E pos \in StopPositions(e.numSamples) :
            EngIs([e EXCEPT !.loopMode = loop, !.reverse = rev, !.state = st,
                            !.pingPongDirection = dir, !.playbackPosition = pos])

\* stop(): its three stores, in program order
StopStore ==
  /\ ctl.pc = "stop"
  /\ CASE ctl.k = 1 -> SetEng([Eng EXCEPT !.state = stop(Eng).state])
       [] ctl.k = 2 -> SetEng([Eng EXCEPT !.playbackPosition = stop(Eng).playbackPosition])
       [] OTHER     -> SetEng([Eng EXCEPT !.pingPongDirection = stop(Eng).pingPongDirection])
  /\ IF ctl.k < 3
     THEN ctl' = [ctl EXCEPT !.k = ctl.k + 1] /\ UNCHANGED ret
     ELSE ctl' = [pc |-> "done", k |-> 0] /\ ret' = Ret("stop")
  /\ UNCHANGED <<mutex_, moduleVars, restVars, aud>>

\* processSample / processSampleStereo: the guard
StopAudGuard ==
  \E stereo \in BOOLEAN :
    /\ aud.pc = "guard"
    /\ IF ~produces(Eng)
       THEN /\ aud' = [aud EXCEPT !.pc = "done", !.stereo = stereo]
            /\ ret' = Ret(IF stereo THEN "processSampleStereo" ELSE "processSample")
       ELSE /\ aud' = [aud EXCEPT !.pc = "read", !.stereo = stereo]
            /\ UNCHANGED ret
    /\ UNCHANGED <<engineVars, mutex_, moduleVars, restVars, ctl>>

\* the interpolated read at the position as it is now
StopAudRead ==
  /\ aud.pc = "read"
  /\ \E v \in ReadValues(Eng, aud.stereo) :
       aud' = [aud EXCEPT !.pc = "params", !.val = v]
  /\ UNCHANGED <<engineVars, mutex_, moduleVars, restVars, ctl, ret>>

\* advancePosition: rate, loop mode, reverse and direction are loaded
StopAudLoadParams ==
  /\ aud.pc = "params"
  /\ aud' = [aud EXCEPT !.pc = "position", !.e = Eng]
  /\ UNCHANGED <<engineVars, mutex_, moduleVars, restVars, ctl, ret>>

\* advancePosition: the position is loaded (numSamples_ is that of the file)
StopAudLoadPosition ==
  /\ aud.pc = "position"
  /\ aud' = [aud EXCEPT !.pc = "store",
                        !.e = [aud.e EXCEPT !.playbackPosition = playbackPosition_]]
  /\ UNCHANGED <<engineVars, mutex_, moduleVars, restVars, ctl, ret>>

\* advancePosition: the stores it makes for what it loaded (the state only
\* where loop mode Off ends, the direction only where PingPong turns, the
\* position always), and the return
StopAudStore ==
  /\ aud.pc = "store"
  /\ LET a == advancePosition(aud.e)
     IN /\ ~a.hang
        /\ SetEng([Eng EXCEPT
                     !.state = IF a.state # aud.e.state THEN a.state ELSE @,
                     !.pingPongDirection = IF a.dir # aud.e.pingPongDirection
                                           THEN a.dir ELSE @,
                     !.playbackPosition = a.pos])
  /\ aud' = [aud EXCEPT !.pc = "done"]
  /\ ret' = [Ret(IF aud.stereo THEN "processSampleStereo" ELSE "processSample")
               EXCEPT !.out = aud.val]
  /\ UNCHANGED <<mutex_, moduleVars, restVars, ctl>>

NextStop ==
  \/ StopStore
  \/ StopAudGuard \/ StopAudRead \/ StopAudLoadParams \/ StopAudLoadPosition
  \/ StopAudStore

SpecStop == InitStop /\ [][NextStop]_vars

\* ---------------------------------------------------------------------------
\* play() against loads and unloads.  play() takes no lock: it reads
\* isLoaded() and then stores the state (wav-player.h:653-659).  The module
\* calls it from process() on the audio thread while its loader thread is
\* inside loadFile; here the thread of aud calls play() and the thread of
\* ctl calls loadFile and unload, store by store.
\* ---------------------------------------------------------------------------

PlayIdle == [pc |-> "idle", loaded |-> FALSE]

\* if (isLoaded())
PlayCheck ==
  /\ aud.pc = "idle"
  /\ aud' = [pc |-> "play", loaded |-> isLoaded(Eng)]
  /\ UNCHANGED <<engineVars, mutex_, moduleVars, restVars, ctl, ret>>

\* state_.store(PlaybackState::Playing), and the return
PlayStore ==
  /\ aud.pc = "play"
  /\ IF aud.loaded THEN SetEng([Eng EXCEPT !.state = "Playing"])
     ELSE UNCHANGED engineVars
  /\ aud' = PlayIdle
  /\ ret' = Ret("play")
  /\ UNCHANGED <<mutex_, moduleVars, restVars, ctl>>

PlayFiles == {FileA, FileB, NullPath}
PlayCallLoadFile == CtlCall("loadFile", PlayFiles)

InitPlay ==
  /\ EngIs(NewEngine)
  /\ mutex_ = "free"
  /\ fileLoading_ = FALSE /\ fileLoaded_ = FALSE /\ fileMutex_ = "free"
  /\ params = DefaultParams
  /\ RestInit
  /\ ctl = Idle /\ aud = PlayIdle
  /\ ret = Void

NextPlay ==
  \/ PlayCallLoadFile \/ CtlLoadFileBegin \/ CtlParse \/ CtlStore
  \/ CtlUnloadBegin \/ CtlUnloadStore
  \/ PlayCheck \/ PlayStore

SpecPlay == InitPlay /\ [][NextPlay]_vars

\* ---------------------------------------------------------------------------
\* Playing a buffer out.  A loadable file is loaded, the loop mode is Off,
\* the engine is Playing at some frame, and from then on the audio thread
\* alone runs: processSample, one call after the other.  The speeds are
\* powers of two, so that every rate is exact in playhead units.
\* ---------------------------------------------------------------------------

PlayOutFiles == {FileA, FileB, FileC, FileS, ZeroRate}
PlayOutSpeeds == {50, 100, 200}

InitPlayOut ==
  /\ mutex_ = "free"
  /\ fileLoading_ = FALSE /\ fileLoaded_ = FALSE /\ fileMutex_ = "free"
  /\ params = DefaultParams
  /\ RestInit
  /\ ctl = Idle /\ aud = Idle
  /\ ret = Void
  /\ \E f \in PlayOutFiles, rev \in BOOLEAN, s \in PlayOutSpeeds, q \in Qualities :
       LET e0 == loadFile(NewEngine, f, TRUE)
           e1 == setInterpolationQuality(setSpeed(setReverse(e0, rev), s), q)
       IN \E i \in 0..(e0.numSamples - 1) :
            EngIs(play(seekToSample(e1, i)))

\* processSample; ret.arg is the state the call found
PlayOutSample ==
  /\ IF ~produces(Eng)
     THEN /\ ret' = [Ret("processSample") EXCEPT !.arg = state_]
          /\ UNCHANGED engineVars
     ELSE /\ \E v \in ReadValues(Eng, FALSE) :
               ret' = [Ret("processSample") EXCEPT !.arg = state_, !.out = v]
          /\ SetEng(Advanced(Eng))
  /\ UNCHANGED otherVars

NextPlayOut == PlayOutSample

SpecPlayOut == InitPlayOut /\ [][NextPlayOut]_vars

\* the host calls the audio callback for ever: a call that is due is made
SpecPlayOutFair == SpecPlayOut /\ WF_vars(PlayOutSample)

\* ---------------------------------------------------------------------------
\* The module's slices (WavPlayer.hpp:192-327) and process() with slicing
\* active (WavPlayer.cpp:4-78).  A file is loaded, the slice count knob has
\* been turned, the trigger input is patched in edge mode and the slice CV
\* input is not patched.  The transport buttons are left alone, reverse is
\* off and the loop mode is Off or Forward.
\* ---------------------------------------------------------------------------

kMaxSlices == 32
SliceInfo(startSample, endSample, order) ==
  [startSample |-> startSample, endSample |-> endSample, order |-> order]

\* updateSlices: the slice list it leaves behind
updateSlices(pr, loaded, totalSamples) ==
  LET numSlices == wavClamp(pr.NUM_SLICES, 1, kMaxSlices)
      samplesPerSlice == totalSamples \div numSlices
  IN IF numSlices <= 1 \/ ~loaded THEN <<>>
     ELSE [i \in 1..numSlices |->
             SliceInfo(((i - 1) * samplesPerSlice) % SizeMod,
                       IF i = numSlices THEN totalSamples
                       ELSE (i * samplesPerSlice) % SizeMod,
                       i - 1)]

\* getCurrentSlice with the CV input unpatched: the selector knob
getCurrentSlice(sl, pr) ==
  IF sl = <<>> THEN -1 ELSE wavClamp(pr.SLICE_SELECT, 0, Len(sl) - 1)

\* triggerSlice: the engine and currentSlice_ it leaves
triggerSlice(e, sl, cur, sliceIdx) ==
  IF sliceIdx < 0 \/ sliceIdx >= Len(sl)
  THEN [e |-> play(IF e.reverse THEN seekToSample(e, SizeSub1(e.numSamples))
                   ELSE seek(e, 0)),
        cur |-> cur]
  ELSE LET slice == sl[sliceIdx + 1]
       IN [e |-> play(seekToSample(e, IF e.reverse THEN SizeSub1(slice.endSample)
                                      ELSE slice.startSample)),
           cur |-> sliceIdx]

\* checkSliceBoundary: the engine it leaves
checkSliceBoundary(e, sl, cur) ==
  IF sl = <<>> \/ cur < 0 \/ cur >= Len(sl) THEN e
  ELSE LET slice == sl[cur + 1]
           currentPos == e.playbackPosition
       IN IF e.reverse
          THEN IF currentPos < slice.startSample * PosScale THEN stop(e) ELSE e
          ELSE IF currentPos >= slice.endSample * PosScale THEN stop(e) ELSE e

\* the slice count check at the end of updatePlayerParameters
\* (WavPlayer.cpp:141-158): the slice list and the selector knob
SliceCountCheck(pr, lastNumSlices, sl, loaded, totalSamples) ==
  LET numSlices == pr.NUM_SLICES
      maxValue == Max(0, numSlices - 1)
  IN IF numSlices = lastNumSlices THEN [sl |-> sl, pr |-> pr]
     ELSE [sl |-> updateSlices(pr, loaded, totalSamples),
           pr |-> IF pr.SLICE_SELECT > maxValue
                  THEN [pr EXCEPT !.SLICE_SELECT = maxValue] ELSE pr]

\* process() up to the call of processSampleStereo
SliceTick(playPressed, stopPressed, triggered) ==
  LET e1 == Controlled(Eng, playPressed, stopPressed, params)
      cur1 == IF stopPressed THEN 0 ELSE currentSlice_
      chk == SliceCountCheck(params, aud.lastNumSlices, slices_, fileLoaded_,
                             e1.numSamples)
      trg == IF triggered
             THEN triggerSlice(e1, chk.sl, cur1, getCurrentSlice(chk.sl, chk.pr))
             ELSE [e |-> e1, cur |-> cur1]
      audio == fileLoaded_ /\ trg.e.state = "Playing"
      selectedSlice == getCurrentSlice(chk.sl, chk.pr)
  IN [e |-> IF audio /\ chk.sl # <<>>
            THEN checkSliceBoundary(trg.e, chk.sl, trg.cur) ELSE trg.e,
      cur |-> IF audio /\ chk.sl # <<>> /\ selectedSlice >= 0
                 /\ selectedSlice < Len(chk.sl)
              THEN selectedSlice ELSE trg.cur,
      sl |-> chk.sl, pr |-> chk.pr, audio |-> audio,
      triggered |-> IF triggered THEN getCurrentSlice(chk.sl, chk.pr) ELSE -1]

SliceParams == [LOOP_MODE |-> 0, REVERSE |-> FALSE, SPEED |-> 0, PITCH |-> 0,
                VOLUME |-> 10, INTERP_QUALITY |-> 0, NUM_SLICES |-> 1,
                SLICE_SELECT |-> 0]
SliceCounts == {1, 2, 3, 5}
SliceFiles == {FileA, FileS}
Buttons == {FALSE}
NoSlice == SliceInfo(0, 0, -1)

\* what a tick is known by: the playhead it started with, whether it
\* triggered, and the slice of the last trigger until a tick has started at
\* or beyond that slice's end
SliceRun(t, position) ==
  [position |-> position,
   triggered |-> t.triggered >= 0,
   slice |-> IF t.triggered >= 0 THEN t.sl[t.triggered + 1]
             ELSE IF ret.op = "process" /\ ret.arg.slice # NoSlice
                     /\ (ret.arg.triggered
                         \/ ret.arg.position < ret.arg.slice.endSample * PosScale)
                  THEN ret.arg.slice
             ELSE NoSlice]

InitSlices ==
  /\ mutex_ = "free"
  /\ fileLoading_ = FALSE /\ fileLoaded_ = TRUE /\ fileMutex_ = "free"
  /\ RestInit
  /\ ctl = Idle /\ aud = [pc |-> "idle", lastNumSlices |-> 1]
  /\ ret = Void
  /\ \E f \in SliceFiles, n \in SliceCounts, loop \in {0, 1} :
       /\ EngIs(updatePlayerParameters(loadFile(NewEngine, f, TRUE), SliceParams))
       /\ params = [SliceParams EXCEPT !.NUM_SLICES = n, !.LOOP_MODE = loop]

\* the slice selector knob is turned, within the range the slice count gives
SetSliceSelect ==
  /\ Alive
  /\ \E k \in 0..Max(0, params.NUM_SLICES - 1) :
       k # params.SLICE_SELECT /\ params' = [params EXCEPT !.SLICE_SELECT = k]
  /\ UNCHANGED <<engineVars, mutex_, restVars, fileLoading_, fileLoaded_, fileMutex_, ctl, aud, ret>>

\* process(): one audio tick.  ret.out is the pair of output voltages.
SliceProcess ==
  \E playPressed, stopPressed \in Buttons, triggered \in BOOLEAN :
    /\ Alive /\ aud.pc = "idle"
    /\ LET t == SliceTick(playPressed, stopPressed, triggered)
           e == t.e
           tick == [pc |-> "idle", lastNumSlices |-> params.NUM_SLICES]
           run == SliceRun(t, playbackPosition_)
       IN /\ slices_' = t.sl /\ currentSlice_' = t.cur /\ params' = t.pr
          /\ IF ~t.audio \/ ~produces(e)
             THEN /\ SetEng(e)
                  /\ aud' = tick
                  /\ ret' = [Ret("process") EXCEPT !.arg = run, !.out = Voltage(Silence)]
             ELSE \E idx \in IndexOf(e.playbackPosition), v \in ReadValues(e, TRUE),
                     faults \in BOOLEAN :
                    /\ faults => ~InBounds(e, idx)
                    /\ IF faults
                       THEN /\ SetEng(e)
                            /\ aud' = [tick EXCEPT !.pc = "fault"]
                            /\ UNCHANGED ret
                       ELSE IF advancePosition(e).hang
                       THEN /\ SetEng(e)
                            /\ aud' = [tick EXCEPT !.pc = "hung"]
                            /\ UNCHANGED ret
                       ELSE /\ SetEng(Advanced(e))
                            /\ aud' = tick
                            /\ ret' = [Ret("process") EXCEPT !.arg = run, !.out = Voltage(v)]
    /\ UNCHANGED <<mutex_, eqVars, fileLoading_, fileLoaded_, fileMutex_, ctl>>

NextSlices == SetSliceSelect \/ SliceProcess

SpecSlices == InitSlices /\ [][NextSlices]_vars

\* ---------------------------------------------------------------------------
\* ShortwavDSP::ThreeBandEQ (dsp/3-band-eq.h): the crossover frequencies.
\* Frequencies are whole Hz.  The two upper limits are sampleRate_ * 0.4f and
\* sampleRate_ * 0.45f; at the rates used here both products round to the
\* whole number computed below.
\* ---------------------------------------------------------------------------

\* detail::clamp (3-band-eq.h:69-72)
clamp(value, minVal, maxVal) == Max(minVal, Min(maxVal, value))

kMinLowFreq == 20
kHighFreqGap == 100
LowFreqLimit(sampleRate) == (sampleRate * 2) \div 5
HighFreqLimit(sampleRate) == (sampleRate * 9) \div 20

\* the equaliser as a record, and its setters (3-band-eq.h:192-212);
\* updateFilterCoefficients writes only the filter coefficients
Eq == [sampleRate |-> sampleRate_, lowFreq |-> lowFreq_, highFreq |-> highFreq_]

setLowFreq(q, freq) ==
  [q EXCEPT !.lowFreq = clamp(freq, kMinLowFreq, LowFreqLimit(q.sampleRate))]

setHighFreq(q, freq) ==
  [q EXCEPT !.highFreq = clamp(freq, q.lowFreq + kHighFreqGap,
                               HighFreqLimit(q.sampleRate))]

setCrossoverFreqs(q, lowFreq, highFreq) == setHighFreq(setLowFreq(q, lowFreq), highFreq)

SetEq(q) ==
  /\ sampleRate_' = q.sampleRate /\ lowFreq_' = q.lowFreq /\ highFreq_' = q.highFreq
  /\ UNCHANGED <<engineVars, mutex_, moduleVars, sliceVars, ctl, aud>>

\* the frequencies a caller passes: below the floor, recommended values,
\* values between the defaults, and values above both limits
Frequencies == {0, 20, 80, 250, 880, 1000, 4000, 4950, 5000, 6000, 17640, 19845, 30000}

InitEQ ==
  /\ EngIs(NewEngine) /\ mutex_ = "free"
  /\ fileLoading_ = FALSE /\ fileLoaded_ = FALSE /\ fileMutex_ = "free"
  /\ params = DefaultParams
  /\ RestInit
  /\ ctl = Idle /\ aud = Idle
  /\ ret = Void

SetLowFreq ==
  \E freq \in Frequencies :
    SetEq(setLowFreq(Eq, freq)) /\ ret' = [Ret("setLowFreq") EXCEPT !.arg = freq]

SetHighFreq ==
  \E freq \in Frequencies :
    SetEq(setHighFreq(Eq, freq)) /\ ret' = [Ret("setHighFreq") EXCEPT !.arg = freq]

SetCrossoverFreqs ==
  \E lowFreq, highFreq \in Frequencies :
    /\ SetEq(setCrossoverFreqs(Eq, lowFreq, highFreq))
    /\ ret' = [Ret("setCrossoverFreqs") EXCEPT !.arg = <<lowFreq, highFreq>>]

NextEQ == SetLowFreq \/ SetHighFreq \/ SetCrossoverFreqs

SpecEQ == InitEQ /\ [][NextEQ]_vars

----------------------------------------------------------------------------
\* Properties

\* C4: a loadFile or loadFromMemory call that returns an error code leaves
\* the engine exactly as it was: buffer, channel count, frame count, source
\* rate, bit depth, playhead, ping-pong direction and state are unchanged.
C4_FailedLoadChangesNothing ==
  [][(ret'.op \in {"loadFile", "loadFromMemory"} /\ ret'.err # "None")
       => UNCHANGED engineVars]_vars

\* a read error was returned while a loaded buffer was playing in reverse
C4_Witness ==
  /\ ret.op = "loadFile" /\ ret.err = "ReadError"
  /\ isLoaded(Eng) /\ state_ = "Playing"
  /\ playbackPosition_ > 0 /\ pingPongDirection_ = -1

\* C6: whenever a buffer is loaded the playhead p satisfies
\* 0 <= p < frameCount, after any sequence of transport and processing calls.
C6_PlayheadInRange ==
  isLoaded(Eng) =>
    (0 <= playbackPosition_ /\ playbackPosition_ < numSamples_ * PosScale)

\* C7: play() sets the state to Playing from any prior state when a buffer
\* is loaded and changes nothing when none is; position and direction are
\* untouched in both cases.
C7_Play ==
  [][ret'.op = "play" =>
       /\ IF isLoaded(Eng)
          THEN Eng' = [Eng EXCEPT !.state = "Playing"]
          ELSE UNCHANGED engineVars
       /\ UNCHANGED <<playbackPosition_, pingPongDirection_>>]_vars

\* play() resumed a paused buffer in the middle of the file
C7_Witness ==
  /\ ret.op = "play" /\ state_ = "Playing" /\ isLoaded(Eng)
  /\ playbackPosition_ > 0

\* C8: pause() sets the state to Paused from any prior state and leaves the
\* playhead position and the ping-pong direction unchanged.
C8_Pause ==
  [][ret'.op = "pause" =>
       /\ state_' = "Paused"
       /\ UNCHANGED <<playbackPosition_, pingPongDirection_>>]_vars

\* pause() was called with the playhead inside the file, travelling backwards
C8_Witness ==
  /\ ret.op = "pause" /\ state_ = "Paused" /\ isLoaded(Eng)
  /\ playbackPosition_ > 0 /\ pingPongDirection_ = -1

\* C9: stop(), called in any state, sets the state to Stopped, the position
\* to 0 when reverse is off and to frameCount-1 when it is on, and the
\* direction to +1 when reverse is off and to -1 when it is on.
C9_Stop ==
  [][ret'.op = "stop" =>
       /\ state_' = "Stopped"
       /\ playbackPosition_' =
            (IF reverse_ THEN (numSamples_ - 1) * PosScale ELSE 0)
       /\ pingPongDirection_' = (IF reverse_ THEN -1 ELSE 1)]_vars

\* C10: stop() is idempotent: calling it twice in succession leaves position,
\* direction and state as calling it once does.
C10_StopIdempotent ==
  [][ret'.op = "stop" => stop(Eng') = Eng']_vars

\* stop() was called on a playing buffer that had been advanced
C10_Witness ==
  /\ ret.op = "stop" /\ state_ = "Stopped" /\ isLoaded(Eng)
  /\ reverse_ /\ playbackPosition_ = (numSamples_ - 1) * PosScale
  /\ numSamples_ > 1

\* the views a processing call may have: no buffer, or one image whole
WholeView(v) ==
  \/ v = NoView
  \/ \E f \in RaceFiles :
       LET p == ParseFile(f, TRUE)
       IN p.err = "None" /\ v = [buf |-> p.data, ch |-> p.numChannels, n |-> p.numFrames]

\* C1: for every interleaving of a load or unload with processing calls,
\* each processing call sees a sample buffer, channel count and frame count
\* that all belong to the same load, never a mix.
C1_NoTornView == WholeView(aud.seen)

\* C2: in every interleaving of processing calls with loadFile,
\* loadFromMemory or unload, every index a processing call reads from the
\* sample buffer is smaller than the buffer's current length.
C2_ReadsInBounds == \A i \in aud.reads : i < aud.len

\* a load requested through loadFileAsync has not yet begun to commit
LoadPending == fileLoading_ /\ ctl.pc \in {"spawned", "call", "parse"}

\* C3: from the request of a new load until the new buffer commits, a
\* player that was Playing the previously loaded buffer keeps producing
\* that buffer's samples on every audio tick: the tick's output voltages
\* are those of the engine's stereo read of that buffer.
C3_PlaysWhileLoading ==
  [][LET e == Controlled(Eng, aud'.play, aud'.stop, params)
     IN (/\ ret'.op = "process" /\ aud'.pc = "idle"
         /\ LoadPending
         /\ isLoaded(Eng) /\ state_ = "Playing" /\ e.state = "Playing")
        => ret'.out \in {Voltage(v) : v \in ReadValues(e, TRUE)}]_vars

\* C5: after a load requested through loadFileAsync has failed, a file
\* that was loaded before the request is still reported as loaded
\* (fileLoaded_ is true), and playing it takes the audio branch of process().
C5_FailedAsyncLoadKeepsFile ==
  (ret.op = "loadFileAsync" /\ ret.err # "None" /\ ~fileLoading_ /\ isLoaded(Eng))
    => (fileLoaded_ /\ Generates(play(Eng)))

\* C11: seek(x) and seekToSample(i) never change the playback state or the
\* ping-pong direction; with a buffer loaded they set the playhead to
\* clamp(x,0,1)*(frameCount-1) and to min(i, frameCount-1), and with no
\* buffer loaded they change nothing.
C11_Seek ==
  [][/\ ret'.op = "seek" =>
          IF isLoaded(Eng)
          THEN Eng' = [Eng EXCEPT !.playbackPosition =
                         wavClamp(ret'.arg, 0, PosScale) * (numSamples_ - 1)]
          ELSE UNCHANGED engineVars
     /\ ret'.op = "seekToSample" =>
          IF isLoaded(Eng)
          THEN Eng' = [Eng EXCEPT !.playbackPosition =
                         Min(ret'.arg, numSamples_ - 1) * PosScale]
          ELSE UNCHANGED engineVars]_vars

\* seek past the end was called on a playing three-frame buffer travelling
\* backwards: the playhead is on the last frame, still Playing
C11_Witness ==
  /\ ret.op = "seek" /\ ret.arg > PosScale
  /\ isLoaded(Eng) /\ numSamples_ = 3 /\ state_ = "Playing"
  /\ pingPongDirection_ = -1
  /\ playbackPosition_ = 2 * PosScale

\* the position a call of advancePosition computes before it handles the
\* boundaries: the playhead plus the rate, negated in reverse and, in
\* PingPong, multiplied by the direction sign
AdvancedRaw(e) ==
  e.playbackPosition
    + (IF e.reverse THEN -1 ELSE 1)
      * (IF e.loopMode = "PingPong" THEN e.pingPongDirection ELSE 1)
      * getEffectivePlaybackRate(e)

\* C12: in loop mode Off, a processing call whose advanced position falls
\* outside [0, frameCount) sets the state to Stopped and clamps the position
\* to the nearest valid bound (0 or frameCount-1); an advanced position
\* inside the range leaves the state Playing.
C12_LoopOff ==
  (ret.op = "advancePosition" /\ ret.arg.loopMode = "Off") =>
    LET e == ret.arg
        adv == AdvancedRaw(e)
    IN IF adv < 0
       THEN ret.out.state = "Stopped" /\ ret.out.playbackPosition = 0
       ELSE IF adv >= e.numSamples * PosScale
       THEN /\ ret.out.state = "Stopped"
            /\ ret.out.playbackPosition = (e.numSamples - 1) * PosScale
       ELSE ret.out.state = "Playing" /\ ret.out.playbackPosition = adv

\* a processing call that read and advanced has returned
Processed ==
  /\ ret'.op \in {"processSample", "processSampleStereo"}
  /\ isLoaded(Eng) /\ state_ = "Playing"

\* C13: in loop mode Forward, a processing call leaves the state Playing and
\* stores the advanced position wrapped modulo frameCount, for forward and
\* for reverse travel: new position = (position + delta) mod frameCount.
C13_LoopForward ==
  [][(Processed /\ loopMode_ = "Forward") =>
       /\ state_' = "Playing"
       /\ playbackPosition_' = AdvancedRaw(Eng) % (numSamples_ * PosScale)]_vars

\* C14: in loop mode PingPong, an advanced position below 0 is mirrored to
\* its negation and one above frameCount-1 is mirrored to 2*(frameCount-1)
\* minus itself, and in both cases, and only then, the direction sign is
\* inverted.
C14_LoopPingPong ==
  (ret.op = "advancePosition" /\ ret.arg.loopMode = "PingPong") =>
    LET e == ret.arg
        adv == AdvancedRaw(e)
        maxPos == (e.numSamples - 1) * PosScale
    IN IF adv < 0
       THEN /\ ret.out.playbackPosition = -adv
            /\ ret.out.pingPongDirection = -e.pingPongDirection
       ELSE IF adv > maxPos
       THEN /\ ret.out.playbackPosition = 2 * maxPos - adv
            /\ ret.out.pingPongDirection = -e.pingPongDirection
       ELSE /\ ret.out.playbackPosition = adv
            /\ ret.out.pingPongDirection = e.pingPongDirection

\* ten frames, direction +1, position 9, delta +2: position 7, direction -1
C14_Witness ==
  /\ ret.op = "advancePosition" /\ ret.arg.loopMode = "PingPong"
  /\ ret.arg.numSamples = 10 /\ ret.arg.playbackPosition = 9 * PosScale
  /\ ret.arg.pingPongDirection = 1 /\ ~ret.arg.reverse
  /\ getEffectivePlaybackRate(ret.arg) = 2 * PosScale
  /\ ret.out.playbackPosition = 7 * PosScale /\ ret.out.pingPongDirection = -1

\* the playhead movement of one call, before boundary handling, with the
\* speed and pitch set through the setters
Movement(e, speed, pitch) ==
  advancePosition(setPitch(setSpeed(e, speed), pitch)).raw - e.playbackPosition

\* C15: speed and pitch contribute multiplicatively and interchangeably to
\* the per-tick advance: within the allowed range, a call with (speed 2s,
\* pitch p) moves the playhead by the same amount as one with (speed s,
\* pitch 2p), and by twice the amount of one with (speed s, pitch p), before
\* boundary handling.
C15_SpeedPitchInterchange ==
  (/\ ret.op = "advancePosition"
   /\ 2 * ret.arg.speed <= 10000 /\ 2 * ret.arg.pitch <= 10000) =>
    LET e == ret.arg
        s == e.speed
        p == e.pitch
    IN /\ advancePosition(e).raw - e.playbackPosition = Movement(e, s, p)
       /\ Movement(e, 2 * s, p) = Movement(e, s, 2 * p)
       /\ Movement(e, 2 * s, p) = 2 * Movement(e, s, p)

\* a call at half speed and double pitch moved the playhead of a ten-frame
\* buffer backwards by one frame
C15_Witness ==
  /\ ret.op = "advancePosition"
  /\ ret.arg.speed = 50 /\ ret.arg.pitch = 200 /\ ret.arg.reverse
  /\ ret.arg.loopMode = "Forward" /\ ret.arg.numSamples = 10
  /\ ret.arg.playbackPosition = 9 * PosScale
  /\ ret.out.playbackPosition = 8 * PosScale

\* C16: a processing call (mono or stereo) made while no buffer is loaded,
\* or while the state is Stopped or Paused, returns zero-valued sample(s)
\* and leaves the playhead position, ping-pong direction and playback state
\* unchanged.
C16_SilentWhenNotPlaying ==
  [][(/\ ret'.op \in {"processSample", "processSampleStereo"}
      /\ (~isLoaded(Eng) \/ state_ \in {"Stopped", "Paused"}))
     => /\ ret'.out = Silence
        /\ UNCHANGED <<playbackPosition_, pingPongDirection_, state_>>]_vars

\* a stereo call was made on a buffer paused in the middle of the file
C16_Witness ==
  /\ ret.op = "processSampleStereo" /\ ret.out = Silence
  /\ isLoaded(Eng) /\ state_ = "Paused"
  /\ playbackPosition_ > 0 /\ playbackPosition_ < (numSamples_ - 1) * PosScale

\* C17: a zero or negative sample rate, whether passed to setSampleRate or
\* read from a file's format chunk, is replaced by the fallback 44100, so
\* the effective playback rate is always computed from two positive rates.
C17_SampleRateFallback ==
  [][/\ (ret'.op = "setSampleRate" /\ ret'.arg <= 0) => outputSampleRate_' = 44100
     /\ (ret'.op \in {"loadFile", "loadFromMemory"} /\ ret'.err = "None") =>
          LET rate == ParseFile(ret'.file, TRUE).sampleRate
          IN fileSampleRate_' = (IF rate <= 0 THEN 44100 ELSE rate)
     /\ outputSampleRate_' > 0 /\ fileSampleRate_' > 0]_vars

\* C18: after a successful loadFile or loadFromMemory, the state is Stopped
\* and the playhead is at 0 when reverse is off, and at frameCount-1 when
\* reverse is on.
C18_PositionAfterLoad ==
  [][(ret'.op \in {"loadFile", "loadFromMemory"} /\ ret'.err = "None") =>
       /\ state_' = "Stopped"
       /\ playbackPosition_' =
            (IF reverse_' THEN (numSamples_' - 1) * PosScale ELSE 0)]_vars

\* the format chunk of a well-formed image
FmtOf(f) == CHOOSE h \in f.hdrs : h.id = "fmt "

\* what the documentation calls unsupported
Unsupported(fmt) ==
  \/ fmt.audioFormat \notin {1, 3, 65534}
  \/ fmt.numChannels \notin {1, 2}
  \/ fmt.bitsPerSample \notin {8, 16, 24, 32}

\* C19: both load entry points return UnsupportedFormat exactly when the
\* format code is none of 1, 3 and 0xFFFE, or the channel count is outside
\* {1,2}, or the bit depth is outside {8,16,24,32}; a well-formed container
\* with a supported format is never rejected as unsupported and never loaded
\* with an unsupported bit depth.
C19_UnsupportedFormat ==
  [][ret'.op \in {"loadFile", "loadFromMemory"} =>
       /\ (ret'.err = "UnsupportedFormat") <=> Unsupported(FmtOf(ret'.file))
       /\ ret'.err = "None" => bitsPerSample_' \in {8, 16, 24, 32}]_vars

\* the data chunk of a well-formed image
DataOf(f) == CHOOSE h \in f.hdrs : h.id = "data"

\* the chunk headers met from a byte offset on when every chunk but the data
\* chunk is stepped over by its size rounded up to even, as documented
RECURSIVE DocumentedChain(_, _)
DocumentedChain(f, off) ==
  IF off + 8 > f.size THEN {}
  ELSE LET h == HeaderAt(f, off) IN
    IF h.id = "data" THEN {h}
    ELSE IF h.csize < 0 THEN {h}
    ELSE {h} \cup DocumentedChain(f, off + 8 + h.csize + (h.csize % 2))

\* both required chunks are found by the documented scan
BothFound(f) ==
  {"fmt ", "data"} \subseteq {h.id : h \in DocumentedChain(f, 12)}

\* the documented frame count
FrameCount(f) ==
  DataOf(f).csize \div ((FmtOf(f).bitsPerSample \div 8) * FmtOf(f).numChannels)

\* C20: while scanning, every chunk that is neither the format chunk nor the
\* data chunk is skipped by its size rounded up to even; once both chunks
\* are found the frame count is dataSize div (bytesPerSample * channels),
\* and a frame count of zero is reported as CorruptedData.
C20_ChunkScan ==
  [][ret'.op \in {"loadFile", "loadFromMemory"} =>
       LET f == ret'.file IN
         /\ ret'.err = "None" => BothFound(f) /\ numSamples_' = FrameCount(f)
         /\ (BothFound(f) /\ ~Unsupported(FmtOf(f)) /\ FrameCount(f) = 0)
              => ret'.err = "CorruptedData"]_vars

\* the dyadic value d is exactly v / 2^(bits-1)
IsRatio(d, v, bits) ==
  /\ d.exp <= bits - 1
  /\ v % Pow2(bits - 1 - d.exp) = 0
  /\ d.num = v \div Pow2(bits - 1 - d.exp)

\* C21: for every supported integer bit depth the converter returns the
\* signed sample value divided by 2^(bits-1); the most negative code maps to
\* exactly -1 and the most positive code to 1 - 2^-(bits-1).
C21_ConvertedValue ==
  ret.op = "convertSample" => IsRatio(ret.out, ret.arg.value, ret.arg.bits)

\* two floats are the same number
SameValue(a, b) ==
  IF IsFinite(a) /\ IsFinite(b)
  THEN LET m == Min(a.exp, b.exp)
       IN a.num * Pow2(b.exp - m) = b.num * Pow2(a.exp - m)
  ELSE a = b /\ a # NaN

\* the stored value of a frame of a channel
Stored(frame, channel) == audioData_[frame * numChannels_ + channel + 1]

\* C22: for each interpolation quality, each channel and each frame index i
\* in [0, frameCount), reading at a playhead exactly equal to i returns the
\* stored value of frame i.
C22_ReadAtFrame ==
  (/\ ret.op = "readInterpolatedSampleStereo"
   /\ playbackPosition_ >= 0 /\ playbackPosition_ % PosScale = 0) =>
    \A c \in ReadChannels(Eng) :
      SameValue(ret.out[c], Stored(playbackPosition_ \div PosScale, c))

\* the frame indices a quality nominally needs around floor(p)
Nominal(quality, k) ==
  CASE quality = "None"   -> <<k>>
    [] quality = "Linear" -> <<k, k + 1>>
    [] OTHER              -> <<k - 1, k, k + 1, k + 2>>

\* C23: every frame read by the interpolator at position p is frame
\* clamp(k, 0, frameCount-1) for the nominal index k in floor(p)-1 ..
\* floor(p)+2 that the quality requires: below 0 reads frame 0, at or beyond
\* frameCount reads the last frame, never wrapping to the other end.
C23_ClampedTaps ==
  ret.op = "readInterpolatedSampleStereo" =>
    LET k == Nominal(interpolation_, playbackPosition_ \div PosScale)
    IN \A c \in ReadChannels(Eng) :
         ret.arg[c] = [j \in 1..Len(k) |->
                         wavClamp(k[j], 0, numSamples_ - 1) * numChannels_ + c]

\* the threads between acquiring the engine lock and returning
Inside == {t \in Threads : ctl[t].pc \in {"parse", "store", "unload"}}

\* C24: load operations are mutually exclusive: of any number of threads
\* calling loadFile, loadFromMemory and unload concurrently, at most one is
\* between acquiring the engine lock and returning, so buffer and metadata
\* are never written by two loads at once.
C24_LoadsExclusive == Cardinality(Inside) <= 1 /\ \A t \in Inside : mutex_ = t

\* a thread is in the middle of its commit while another one waits for the
\* lock
C24_Witness ==
  \E t, u \in Threads :
    /\ t # u /\ ctl[t].pc = "store" /\ ctl[t].k > 1 /\ ctl[u].pc = "lock"

\* C25: stop() is thread-safe against the audio thread: for every
\* interleaving of one stop() on a control thread with one processing call
\* on the audio thread, once both have returned the state is Stopped and the
\* playhead is at the reset position (0, or frameCount-1 if reverse is set).
C25_StopAgainstAudio ==
  (ctl.pc = "done" /\ aud.pc = "done") =>
    /\ state_ = "Stopped"
    /\ playbackPosition_ = (IF reverse_ THEN (numSamples_ - 1) * PosScale ELSE 0)

\* C26: after any sequence of setLowFreq, setHighFreq and setCrossoverFreqs
\* on a ThreeBandEQ, the low crossover is at least 20 Hz and the high
\* crossover is strictly above the low one.
C26_CrossoverOrder == lowFreq_ >= kMinLowFreq /\ highFreq_ > lowFreq_

\* the slices tile the file: the first starts at 0, each ends where the next
\* starts, the last ends at totalSamples, and none is empty
Tiles(sl, totalSamples) ==
  /\ sl[1].startSample = 0
  /\ \A i \in 1..(Len(sl) - 1) : sl[i].endSample = sl[i + 1].startSample
  /\ sl[Len(sl)].endSample = totalSamples
  /\ \A i \in 1..Len(sl) : sl[i].startSample < sl[i].endSample

\* C29: after updateSlices with a file of totalSamples frames loaded and a
\* slice count n in 2..32, the slice list has exactly n entries that tile the
\* file, and every slice is non-empty.
C29_SlicesTile ==
  (ret.op = "process" /\ fileLoaded_ /\ params.NUM_SLICES \in 2..kMaxSlices) =>
    Len(slices_) = params.NUM_SLICES /\ Tiles(slices_, numSamples_)

\* C27: region playback is enforced per triggered slice: after
\* triggerSlice(k) with forward direction, every tick that outputs a
\* non-silent sample starts with the playhead inside slice k, and the first
\* tick that starts at or beyond the end of slice k leaves the engine stopped
\* and outputs silence, whatever the slice selector does in the meantime.
C27_RegionPlayback ==
  (ret.op = "process" /\ ~ret.arg.triggered /\ ret.arg.slice # NoSlice) =>
    LET slice == ret.arg.slice
        inside == /\ slice.startSample * PosScale <= ret.arg.position
                  /\ ret.arg.position < slice.endSample * PosScale
    IN /\ ret.out # Voltage(Silence) => inside
       /\ ret.arg.position >= slice.endSample * PosScale =>
            state_ = "Stopped" /\ ret.out = Voltage(Silence)

\* C28: in every reachable state, including every interleaving of play() on
\* one thread with unload() or a load on another, state = Playing implies
\* that a buffer is loaded (frame count > 0 and buffer non-empty).
C28_PlayingIsLoaded == state_ = "Playing" => numSamples_ > 0 /\ Len(audioData_) > 0

\* C30: with a buffer loaded, loop mode Off and state Playing, and no
\* further control calls, repeated processing calls eventually set the state
\* to Stopped (forward and reverse, for every loadable file), and every
\* processing call after that returns silence.
C30_PlaysOut ==
  /\ <>(state_ = "Stopped")
  /\ []((ret.op = "processSample" /\ ret.arg = "Stopped") =>
          (ret.out = Silence /\ state_ = "Stopped"))

====
